---- MODULE Spec2Model ----
(***************************************************************************)
(* The session / slot lifecycle facade of pysunvox (src/pysunvox/sunvox.py) *)
(* over the native SunVox engine reached through pysunvox._core.            *)
(*                                                                          *)
(* The wrapper state is SunVox._initialized, each SunVox object's _version, *)
(* each Slot object's _is_open, and the stack of `with slot.lock():` bodies *)
(* the caller is inside.  The native engine is the environment: each native *)
(* call returns a value chosen from a small set, and the little native      *)
(* state the wrapper's contract speaks about (live engine count, negotiated *)
(* sample rate, per-index slot lock) is kept beside the wrapper state.      *)
(* `last` records the wrapper operation that produced the current state:    *)
(* what it forwarded, what the native call returned, whether it raised, and *)
(* the state it started from.                                               *)
(***************************************************************************)
EXTENDS Integers, Sequences, FiniteSets, TLC

\* ------------------------------------------------------------------ bounds
NumHandles == 3       \* Slot objects constructed by the caller
MaxLockDepth == 2     \* nesting depth of `with slot.lock():` bodies

\* ------------------------------------------------------------------ inputs
Instances == {1, 2}                 \* SunVox objects constructed by the caller
Handles == 1..NumHandles            \* Slot objects constructed by the caller
SlotNum(h) == (h - 1) \div 2        \* Slot._slot: handles 1 and 2 share index 0
SlotIdx == {SlotNum(h) : h \in Handles}

\* --------------------------------------------------- native call results
NativeRc == {-1, 0, 1}              \* an int-returning native call: error, zero, positive
NativeInitResults == {-1, 0, 1}     \* _core.init: error, or a packed version >= 0
Rates == {44100, 48000}             \* _core.get_sample_rate after a successful init

VARIABLES
    initialized,    \* SunVox._initialized (class attribute, shared by all instances)
    version,        \* SunVox._version per instance: [set, val], set = FALSE is None
    is_open,        \* Slot._is_open per handle
    lockStack,      \* the `with slot.lock():` bodies the caller is inside, innermost last
    exc,            \* an exception is propagating out of the innermost lock body
    engineLive,     \* native: successful _core.init calls not yet followed by _core.deinit
    sample_rate,    \* native: the engine's negotiated rate (0 before any init)
    lockHeld,       \* native: per slot index, the slot lock is held
    lockBalance,    \* per slot index: lock_slot calls returned minus unlock_slot calls
    last,           \* the wrapper operation that led to this state
    nslots,         \* native: the slot indices the engine holds open
    proj,           \* native: the project of each slot index
    held,           \* the bytes the caller keeps from its latest save_to_memory()
    io,             \* arguments forwarded and value returned by the latest operation
    pc              \* where each running caller is: the threads of a concurrent
                    \* scenario, or the command-line program, with their locals

vars == <<initialized, version, is_open, lockStack, exc, engineLive,
          sample_rate, lockHeld, lockBalance, last, nslots, proj, held, io, pc>>

wrapperVars == <<initialized, version, is_open>>
nativeVars == <<nslots, proj, held, io>>
lockVars == <<lockStack, lockHeld, lockBalance>>
engineVars == <<engineLive, sample_rate>>

NoVersion == [set |-> FALSE, val |-> 0]      \* self._version = None

\* ------------------------------------------------------ native projects
ModIdx == {0, 1}                    \* module indices of a slot
PatIdx == {0, 1}                    \* pattern indices of a slot
SV_MODULE_FLAG_EXISTS == 1          \* bit 0 of a module's flag word

\* The cells of a pattern the model follows: track 0, lines 0 and 1.  A
\* cell is an event <<note, vel, module, ctl, ctl_val>>.
Cells == {<<0, 0>>, <<0, 1>>}
EmptyEvent == <<0, 0, 0, 0, 0>>
NoCells == [c \in Cells |-> EmptyEvent]

NoPattern == [lines |-> 0, muted |-> FALSE, cells |-> NoCells]

\* The project a slot holds when the engine opens it: no name, the default
\* tempo, full volume, transport in standby, the Output module at index 0.
FreshProject ==
    [name |-> "", bpm |-> 125, volume |-> 256, state |-> "standby", line |-> 0,
     mods |-> [m \in ModIdx |-> IF m = 0 THEN SV_MODULE_FLAG_EXISTS ELSE 0],
     pats |-> [p \in PatIdx |-> NoPattern]]

\* The caller holds no saved bytes.  With the bytes the caller remembers the
\* slot index they were saved from and the name and bpm it read there.
NoData == [bytes |-> <<>>, src |-> -1, name |-> "", bpm |-> 0]

\* What the caller passed to an operation (`input`), what the operation
\* forwarded to the engine (`args`) and returned (`ret`), and the native state
\* it started from.
Call(input, args, ret) ==
    [input |-> input, args |-> args, ret |-> ret,
     pre |-> [nslots |-> nslots, proj |-> proj, held |-> held]]

IO(args, ret) == Call(<<>>, args, ret)

\* The state an operation starts from.
Pre ==
    [initialized |-> initialized, version |-> version, is_open |-> is_open,
     engineLive |-> engineLive, sample_rate |-> sample_rate,
     lockHeld |-> lockHeld, depth |-> Len(lockStack), exc |-> exc]

\* One wrapper operation: `who` is the SunVox instance or the Slot handle,
\* `idx` the slot index it passed to the native layer (-1: none), `ncalls`
\* the native calls it issued, `rc` / `null` what the (last) native call
\* returned, `raised` whether the operation raised SunVoxError.
Rec(op, who, idx, ncalls, rc, null, raised) ==
    [op |-> op, who |-> who, idx |-> idx, ncalls |-> ncalls, rc |-> rc,
     null |-> null, raised |-> raised, pre |-> Pre]

InitWrapper ==
    /\ initialized = FALSE
    /\ version = [s \in Instances |-> NoVersion]
    /\ is_open = [h \in Handles |-> FALSE]
    /\ lockStack = <<>>
    /\ exc = FALSE
    /\ engineLive = 0
    /\ sample_rate = 0
    /\ lockHeld = [i \in SlotIdx |-> FALSE]
    /\ lockBalance = [i \in SlotIdx |-> 0]
    /\ last = [op |-> "none", who |-> 0, idx |-> -1, ncalls |-> 0, rc |-> 0,
               null |-> FALSE, raised |-> FALSE,
               pre |-> [initialized |-> FALSE,
                        version |-> [s \in Instances |-> NoVersion],
                        is_open |-> [h \in Handles |-> FALSE],
                        engineLive |-> 0, sample_rate |-> 0,
                        lockHeld |-> [i \in SlotIdx |-> FALSE],
                        depth |-> 0, exc |-> FALSE]]

\* Spec and SpecLock follow the wrapper and what its native calls return,
\* not the projects inside the engine.
Init ==
    /\ InitWrapper
    /\ nslots = {}
    /\ proj = <<>>
    /\ held = NoData
    /\ io = <<>>
    /\ pc = <<>>

\* The specifications that follow the projects inside the engine start with
\* no slot open and nothing saved.
InitEngine ==
    /\ nslots = {}
    /\ proj = [i \in SlotIdx |-> FreshProject]
    /\ held = NoData
    /\ io = [input |-> <<>>, args |-> <<>>, ret |-> 0,
             pre |-> [nslots |-> {}, proj |-> [i \in SlotIdx |-> FreshProject],
                      held |-> NoData]]

InitNative == InitWrapper /\ InitEngine /\ pc = <<>>

\* A SunVoxError raised by an operation propagates out of the innermost lock
\* body when the caller is inside one; otherwise it reaches the caller at once.
Propagates(raised) == raised /\ lockStack # <<>>

\* ------------------------------------------------------------ SunVox
\* SunVox.init without the test of the class flag
SunVox_init_unguarded(s) ==
    /\ ~exc
    /\ \E result \in NativeInitResults, rate \in Rates :
        /\ last' = Rec("init", s, -1, 1, result, FALSE, result < 0)
        /\ exc' = Propagates(result < 0)
        /\ IF result < 0
           THEN UNCHANGED <<initialized, version, engineLive, sample_rate>>
           ELSE /\ initialized' = TRUE
                /\ version' = [version EXCEPT ![s] = [set |-> TRUE, val |-> result]]
                /\ engineLive' = engineLive + 1
                /\ sample_rate' = rate
    /\ UNCHANGED <<is_open, lockStack, lockHeld, lockBalance>>

\* SunVox.init that records the native result as the version before testing it
SunVox_init_records_first(s) ==
    /\ ~exc
    /\ IF initialized
       THEN /\ last' = Rec("init", s, -1, 0, 0, FALSE, TRUE)
            /\ exc' = Propagates(TRUE)
            /\ UNCHANGED <<initialized, version, engineLive, sample_rate>>
       ELSE \E result \in NativeInitResults, rate \in Rates :
            /\ last' = Rec("init", s, -1, 1, result, FALSE, result < 0)
            /\ exc' = Propagates(result < 0)
            /\ version' = [version EXCEPT ![s] = [set |-> TRUE, val |-> result]]
            /\ IF result < 0
               THEN UNCHANGED <<initialized, engineLive, sample_rate>>
               ELSE /\ initialized' = TRUE
                    /\ engineLive' = engineLive + 1
                    /\ sample_rate' = rate
    /\ UNCHANGED <<is_open, lockStack, lockHeld, lockBalance>>

\* SunVox.init
SunVox_init(s) ==
    /\ ~exc
    /\ IF initialized
       THEN /\ last' = Rec("init", s, -1, 0, 0, FALSE, TRUE)
            /\ exc' = Propagates(TRUE)
            /\ UNCHANGED <<initialized, version, engineLive, sample_rate>>
       ELSE \E result \in NativeInitResults, rate \in Rates :
            /\ last' = Rec("init", s, -1, 1, result, FALSE, result < 0)
            /\ exc' = Propagates(result < 0)
            /\ IF result < 0
               THEN UNCHANGED <<initialized, version, engineLive, sample_rate>>
               ELSE /\ initialized' = TRUE
                    /\ version' = [version EXCEPT ![s] = [set |-> TRUE, val |-> result]]
                    /\ engineLive' = engineLive + 1
                    /\ sample_rate' = rate
    /\ UNCHANGED <<is_open, lockStack, lockHeld, lockBalance>>

\* SunVox.deinit that forgets to clear the class flag
SunVox_deinit_keeps_flag(s) ==
    /\ ~exc
    /\ IF initialized
       THEN /\ last' = Rec("deinit", s, -1, 1, 0, FALSE, FALSE)
            /\ engineLive' = 0
       ELSE /\ last' = Rec("deinit", s, -1, 0, 0, FALSE, FALSE)
            /\ UNCHANGED engineLive
    /\ UNCHANGED <<initialized, version, sample_rate, is_open, lockStack, exc,
                   lockHeld, lockBalance>>

\* SunVox.deinit without the test of the class flag
SunVox_deinit_unguarded(s) ==
    /\ ~exc
    /\ last' = Rec("deinit", s, -1, 1, 0, FALSE, FALSE)
    /\ engineLive' = 0
    /\ initialized' = FALSE
    /\ UNCHANGED <<version, sample_rate, is_open, lockStack, exc, lockHeld, lockBalance>>

\* SunVox.deinit
SunVox_deinit(s) ==
    /\ ~exc
    /\ IF initialized
       THEN /\ last' = Rec("deinit", s, -1, 1, 0, FALSE, FALSE)
            /\ engineLive' = 0
            /\ initialized' = FALSE
       ELSE /\ last' = Rec("deinit", s, -1, 0, 0, FALSE, FALSE)
            /\ UNCHANGED <<engineLive, initialized>>
    /\ UNCHANGED <<version, sample_rate, is_open, lockStack, exc, lockHeld, lockBalance>>

\* ------------------------------------------------------------ Slot
\* _core.open_slot: the native layer rejects the call when no engine is live;
\* otherwise it may accept or reject it (index out of range, slot in use).
NativeOpenSlotResults == IF engineLive = 0 THEN {-1} ELSE NativeRc

\* Slot.open that marks the handle open before it looks at the result
Slot_open_marks_first(h) ==
    /\ ~exc
    /\ \E result \in NativeOpenSlotResults :
        /\ last' = Rec("open", h, SlotNum(h), 1, result, FALSE, result < 0)
        /\ exc' = Propagates(result < 0)
    /\ is_open' = [is_open EXCEPT ![h] = TRUE]
    /\ UNCHANGED <<initialized, version, engineLive, sample_rate, lockStack,
                   lockHeld, lockBalance>>

\* Slot.open
Slot_open(h) ==
    /\ ~exc
    /\ \E result \in NativeOpenSlotResults :
        /\ last' = Rec("open", h, SlotNum(h), 1, result, FALSE, result < 0)
        /\ exc' = Propagates(result < 0)
        /\ IF result < 0
           THEN UNCHANGED is_open
           ELSE is_open' = [is_open EXCEPT ![h] = TRUE]
    /\ UNCHANGED <<initialized, version, engineLive, sample_rate, lockStack,
                   lockHeld, lockBalance>>

\* Slot.close without the test of _is_open
Slot_close_unguarded(h) ==
    /\ ~exc
    /\ last' = Rec("close", h, SlotNum(h), 1, 0, FALSE, FALSE)
    /\ is_open' = [is_open EXCEPT ![h] = FALSE]
    /\ UNCHANGED <<initialized, version, engineLive, sample_rate, lockStack, exc,
                   lockHeld, lockBalance>>

\* Slot.close
Slot_close(h) ==
    /\ ~exc
    /\ IF is_open[h]
       THEN /\ last' = Rec("close", h, SlotNum(h), 1, 0, FALSE, FALSE)
            /\ is_open' = [is_open EXCEPT ![h] = FALSE]
       ELSE /\ last' = Rec("close", h, -1, 0, 0, FALSE, FALSE)
            /\ UNCHANGED is_open
    /\ UNCHANGED <<initialized, version, engineLive, sample_rate, lockStack, exc,
                   lockHeld, lockBalance>>

\* A method of Slot (or of a Module / Pattern reference of that Slot) that
\* issues one native call with the Slot's index and touches no wrapper field:
\* `raised` says whether the method turns the native result into SunVoxError.
SlotCall(h, op, rc, null, raised) ==
    /\ ~exc
    /\ last' = Rec(op, h, SlotNum(h), 1, rc, null, raised)
    /\ exc' = Propagates(raised)
    /\ UNCHANGED <<initialized, version, is_open, engineLive, sample_rate,
                   lockStack, lockHeld, lockBalance>>

\* Slot.load that refuses a handle that is not open
Slot_load_checks_open(h) ==
    IF is_open[h]
    THEN \E result \in NativeRc : SlotCall(h, "load", result, FALSE, result < 0)
    ELSE /\ ~exc
         /\ last' = Rec("load", h, -1, 0, 0, FALSE, TRUE)
         /\ exc' = Propagates(TRUE)
         /\ UNCHANGED <<initialized, version, is_open, engineLive, sample_rate,
                        lockStack, lockHeld, lockBalance>>

\* Slot.load
Slot_load(h) ==
    \E result \in NativeRc : SlotCall(h, "load", result, FALSE, result < 0)

\* Slot.load_from_memory that marks the handle closed when the load fails
Slot_load_from_memory_closes_on_failure(h) ==
    /\ ~exc
    /\ \E result \in NativeRc :
        /\ last' = Rec("load_from_memory", h, SlotNum(h), 1, result, FALSE, result < 0)
        /\ exc' = Propagates(result < 0)
        /\ is_open' = IF result < 0 THEN [is_open EXCEPT ![h] = FALSE] ELSE is_open
    /\ UNCHANGED <<initialized, version, engineLive, sample_rate, lockStack,
                   lockHeld, lockBalance>>

\* Slot.load_from_memory
Slot_load_from_memory(h) ==
    \E result \in NativeRc : SlotCall(h, "load_from_memory", result, FALSE, result < 0)

\* Slot.save
Slot_save(h) ==
    \E result \in NativeRc : SlotCall(h, "save", result, FALSE, result < 0)

\* Slot.save_to_memory: the native call returns bytes, or None
Slot_save_to_memory(h) ==
    \E isNone \in BOOLEAN : SlotCall(h, "save_to_memory", 0, isNone, isNone)

\* Slot.play
Slot_play(h) ==
    \E result \in NativeRc : SlotCall(h, "play", result, FALSE, FALSE)

\* Slot.play_from_beginning
Slot_play_from_beginning(h) ==
    \E result \in NativeRc : SlotCall(h, "play_from_beginning", result, FALSE, FALSE)

\* Slot.stop that issues the native stop twice
Slot_stop_twice(h) ==
    /\ ~exc
    /\ \E result \in NativeRc :
        last' = Rec("stop", h, SlotNum(h), 2, result, FALSE, FALSE)
    /\ exc' = Propagates(FALSE)
    /\ UNCHANGED <<initialized, version, is_open, engineLive, sample_rate,
                   lockStack, lockHeld, lockBalance>>

\* Slot.stop
Slot_stop(h) ==
    \E result \in NativeRc : SlotCall(h, "stop", result, FALSE, FALSE)

\* Slot.pause
Slot_pause(h) ==
    \E result \in NativeRc : SlotCall(h, "pause", result, FALSE, FALSE)

\* Slot.resume
Slot_resume(h) ==
    \E result \in NativeRc : SlotCall(h, "resume", result, FALSE, FALSE)

\* Slot.rewind
Slot_rewind(h) ==
    \E result \in NativeRc : SlotCall(h, "rewind", result, FALSE, FALSE)

\* Slot.name (getter) and the other read-only properties: bpm, tpl,
\* length_frames, length_lines, current_line, is_playing, num_modules,
\* num_patterns.  Each returns what the native query returned.
SlotGetters ==
    {"name", "bpm", "tpl", "length_frames", "length_lines", "current_line",
     "is_playing", "autostop", "volume", "num_modules", "num_patterns"}

Slot_get(h, prop) ==
    \E result \in NativeRc : SlotCall(h, prop, result, FALSE, FALSE)

\* Slot.name / Slot.autostop / Slot.volume setters
SlotSetters == {"name.setter", "autostop.setter", "volume.setter"}

Slot_set(h, prop) ==
    \E result \in NativeRc : SlotCall(h, prop, result, FALSE, FALSE)

\* Slot.send_event
Slot_send_event(h) ==
    \E result \in NativeRc : SlotCall(h, "send_event", result, FALSE, FALSE)

\* ------------------------------------------------------------ Slot.lock
\* _core.lock_slot: the slot lock is exclusive, so the call returns success
\* only when the lock of that index is free; it may also return an error.
NativeLockResults(i) == IF lockHeld[i] THEN {-1} ELSE NativeRc

\* Slot.lock, up to the yield: `with slot.lock():` is entered
Slot_lock_enter(h) ==
    /\ ~exc
    /\ Len(lockStack) < MaxLockDepth
    /\ \E result \in NativeLockResults(SlotNum(h)) :
        /\ last' = Rec("lock", h, SlotNum(h), 1, result, FALSE, FALSE)
        /\ lockHeld' = IF result >= 0
                       THEN [lockHeld EXCEPT ![SlotNum(h)] = TRUE]
                       ELSE lockHeld
    /\ lockBalance' = [lockBalance EXCEPT ![SlotNum(h)] = @ + 1]
    /\ lockStack' = Append(lockStack, h)
    /\ UNCHANGED <<initialized, version, is_open, exc, engineLive, sample_rate>>

\* Slot.lock without the try/finally: the unlock is skipped when the body raises
Slot_lock_exit_no_finally ==
    /\ lockStack # <<>>
    /\ LET h == lockStack[Len(lockStack)]
           i == SlotNum(h)
       IN  IF exc
           THEN /\ last' = Rec("unlock", h, -1, 0, 0, FALSE, TRUE)
                /\ UNCHANGED <<lockHeld, lockBalance>>
           ELSE /\ \E result \in NativeRc :
                     last' = Rec("unlock", h, i, 1, result, FALSE, FALSE)
                /\ lockHeld' = [lockHeld EXCEPT ![i] = FALSE]
                /\ lockBalance' = [lockBalance EXCEPT ![i] = @ - 1]
    /\ lockStack' = SubSeq(lockStack, 1, Len(lockStack) - 1)
    /\ exc' = (exc /\ Len(lockStack) > 1)
    /\ UNCHANGED <<initialized, version, is_open, engineLive, sample_rate>>

\* Slot.lock, from the yield on: the innermost body is left, normally or by
\* the exception that is propagating; the finally clause unlocks and the
\* exception, if any, goes on to the enclosing body or to the caller.
\* last.raised says that the with statement was left by an exception.
Slot_lock_exit ==
    /\ lockStack # <<>>
    /\ LET h == lockStack[Len(lockStack)]
           i == SlotNum(h)
       IN  /\ \E result \in NativeRc :
                last' = Rec("unlock", h, i, 1, result, FALSE, exc)
           /\ lockHeld' = [lockHeld EXCEPT ![i] = FALSE]
           /\ lockBalance' = [lockBalance EXCEPT ![i] = @ - 1]
    /\ lockStack' = SubSeq(lockStack, 1, Len(lockStack) - 1)
    /\ exc' = (exc /\ Len(lockStack) > 1)
    /\ UNCHANGED <<initialized, version, is_open, engineLive, sample_rate>>

\* The body of a `with slot.lock():` raises (any exception, KeyboardInterrupt
\* included).
Body_raise ==
    /\ ~exc
    /\ lockStack # <<>>
    /\ last' = Rec("raise", lockStack[Len(lockStack)], -1, 0, 0, FALSE, TRUE)
    /\ exc' = TRUE
    /\ UNCHANGED <<initialized, version, is_open, engineLive, sample_rate,
                   lockStack, lockHeld, lockBalance>>

\* A try/except inside the current body handles the propagating exception.
Body_catch ==
    /\ exc
    /\ lockStack # <<>>
    /\ last' = Rec("except", lockStack[Len(lockStack)], -1, 0, 0, FALSE, FALSE)
    /\ exc' = FALSE
    /\ UNCHANGED <<initialized, version, is_open, engineLive, sample_rate,
                   lockStack, lockHeld, lockBalance>>

\* ------------------------------------------- structural mutations
\* Slot.new_module that refuses to run when the slot lock is not held
Slot_new_module_checks_lock(h) ==
    IF lockHeld[SlotNum(h)]
    THEN \E mod_num \in NativeRc : SlotCall(h, "new_module", mod_num, FALSE, mod_num < 0)
    ELSE /\ ~exc
         /\ last' = Rec("new_module", h, -1, 0, 0, FALSE, TRUE)
         /\ exc' = Propagates(TRUE)
         /\ UNCHANGED <<initialized, version, is_open, engineLive, sample_rate,
                        lockStack, lockHeld, lockBalance>>

\* Slot.new_module
Slot_new_module(h) ==
    \E mod_num \in NativeRc : SlotCall(h, "new_module", mod_num, FALSE, mod_num < 0)

\* Slot.load_module
Slot_load_module(h) ==
    \E mod_num \in NativeRc : SlotCall(h, "load_module", mod_num, FALSE, mod_num < 0)

\* Slot.new_pattern
Slot_new_pattern(h) ==
    \E pat_num \in NativeRc : SlotCall(h, "new_pattern", pat_num, FALSE, pat_num < 0)

\* Module.connect_to, on a Module of Slot h
Module_connect_to(h) ==
    \E result \in NativeRc : SlotCall(h, "connect_to", result, FALSE, FALSE)

\* Module.disconnect_from
Module_disconnect_from(h) ==
    \E result \in NativeRc : SlotCall(h, "disconnect_from", result, FALSE, FALSE)

\* Module.remove
Module_remove(h) ==
    \E result \in NativeRc : SlotCall(h, "Module.remove", result, FALSE, FALSE)

\* Pattern.set_size, on a Pattern of Slot h
Pattern_set_size(h) ==
    \E result \in NativeRc : SlotCall(h, "set_size", result, FALSE, FALSE)

\* Pattern.set_event
Pattern_set_event(h) ==
    \E result \in NativeRc : SlotCall(h, "set_event", result, FALSE, FALSE)

\* Pattern.mute
Pattern_mute(h) ==
    \E result \in NativeRc : SlotCall(h, "mute", result, FALSE, FALSE)

\* Pattern.unmute
Pattern_unmute(h) ==
    \E result \in NativeRc : SlotCall(h, "unmute", result, FALSE, FALSE)

\* Pattern.remove
Pattern_remove(h) ==
    \E result \in NativeRc : SlotCall(h, "Pattern.remove", result, FALSE, FALSE)

\* The operations the contract calls structural mutations.
StructuralOps ==
    {"new_module", "load_module", "new_pattern", "connect_to", "disconnect_from",
     "Module.remove", "set_size", "mute", "unmute", "Pattern.remove"}

Next ==
    \/ \E s \in Instances : SunVox_init(s) /\ UNCHANGED <<nativeVars, pc>>
    \/ \E s \in Instances : SunVox_deinit(s) /\ UNCHANGED <<nativeVars, pc>>
    \/ \E h \in Handles : Slot_open(h) /\ UNCHANGED <<nativeVars, pc>>
    \/ \E h \in Handles : Slot_close(h) /\ UNCHANGED <<nativeVars, pc>>
    \/ \E h \in Handles : Slot_load(h) /\ UNCHANGED <<nativeVars, pc>>
    \/ \E h \in Handles : Slot_load_from_memory(h) /\ UNCHANGED <<nativeVars, pc>>
    \/ \E h \in Handles : Slot_save(h) /\ UNCHANGED <<nativeVars, pc>>
    \/ \E h \in Handles : Slot_save_to_memory(h) /\ UNCHANGED <<nativeVars, pc>>
    \/ \E h \in Handles : Slot_play(h) /\ UNCHANGED <<nativeVars, pc>>
    \/ \E h \in Handles : Slot_play_from_beginning(h) /\ UNCHANGED <<nativeVars, pc>>
    \/ \E h \in Handles : Slot_stop(h) /\ UNCHANGED <<nativeVars, pc>>
    \/ \E h \in Handles : Slot_pause(h) /\ UNCHANGED <<nativeVars, pc>>
    \/ \E h \in Handles : Slot_resume(h) /\ UNCHANGED <<nativeVars, pc>>
    \/ \E h \in Handles : Slot_rewind(h) /\ UNCHANGED <<nativeVars, pc>>
    \/ \E h \in Handles, p \in SlotGetters : Slot_get(h, p) /\ UNCHANGED <<nativeVars, pc>>
    \/ \E h \in Handles, p \in SlotSetters : Slot_set(h, p) /\ UNCHANGED <<nativeVars, pc>>
    \/ \E h \in Handles : Slot_send_event(h) /\ UNCHANGED <<nativeVars, pc>>

Spec == Init /\ [][Next]_vars

\* The caller working inside `with slot.lock():` bodies.
NextLock ==
    \/ \E h \in Handles : Slot_lock_enter(h) /\ UNCHANGED <<nativeVars, pc>>
    \/ Slot_lock_exit /\ UNCHANGED <<nativeVars, pc>>
    \/ Body_raise /\ UNCHANGED <<nativeVars, pc>>
    \/ Body_catch /\ UNCHANGED <<nativeVars, pc>>
    \/ \E h \in Handles : Slot_new_module(h) /\ UNCHANGED <<nativeVars, pc>>
    \/ \E h \in Handles : Slot_load_module(h) /\ UNCHANGED <<nativeVars, pc>>
    \/ \E h \in Handles : Slot_new_pattern(h) /\ UNCHANGED <<nativeVars, pc>>
    \/ \E h \in Handles : Module_connect_to(h) /\ UNCHANGED <<nativeVars, pc>>
    \/ \E h \in Handles : Module_disconnect_from(h) /\ UNCHANGED <<nativeVars, pc>>
    \/ \E h \in Handles : Module_remove(h) /\ UNCHANGED <<nativeVars, pc>>
    \/ \E h \in Handles : Pattern_set_size(h) /\ UNCHANGED <<nativeVars, pc>>
    \/ \E h \in Handles : Pattern_set_event(h) /\ UNCHANGED <<nativeVars, pc>>
    \/ \E h \in Handles : Pattern_mute(h) /\ UNCHANGED <<nativeVars, pc>>
    \/ \E h \in Handles : Pattern_unmute(h) /\ UNCHANGED <<nativeVars, pc>>
    \/ \E h \in Handles : Pattern_remove(h) /\ UNCHANGED <<nativeVars, pc>>

SpecLock == Init /\ [][NextLock]_vars

\* ------------------------------------------------- engine and slot table
\* _core.init on success gives a new engine with no slot open; _core.deinit
\* destroys the engine and every slot in it.
NativeInit ==
    /\ nslots' = IF last'.ncalls = 1 /\ last'.rc >= 0 THEN {} ELSE nslots
    /\ proj' = IF last'.ncalls = 1 /\ last'.rc >= 0
               THEN [i \in SlotIdx |-> FreshProject] ELSE proj
    /\ io' = IO(<<>>, last'.rc)
    /\ UNCHANGED held

NativeDeinit ==
    /\ nslots' = IF last'.ncalls = 1 THEN {} ELSE nslots
    /\ proj' = IF last'.ncalls = 1 THEN [i \in SlotIdx |-> FreshProject] ELSE proj
    /\ io' = IO(<<>>, 0)
    /\ UNCHANGED held

\* _core.open_slot succeeds only on an index the engine does not hold open,
\* and then holds it open with a fresh project.
NativeOpenSlot ==
    /\ last'.rc >= 0 => last'.idx \notin nslots
    /\ nslots' = IF last'.rc >= 0 THEN nslots \cup {last'.idx} ELSE nslots
    /\ proj' = IF last'.rc >= 0 THEN [proj EXCEPT ![last'.idx] = FreshProject] ELSE proj
    /\ io' = IO(<<last'.idx>>, last'.rc)
    /\ UNCHANGED held

\* _core.close_slot releases the index.
NativeCloseSlot ==
    /\ nslots' = IF last'.ncalls = 1 THEN nslots \ {last'.idx} ELSE nslots
    /\ proj' = IF last'.ncalls = 1 /\ last'.idx \in nslots
               THEN [proj EXCEPT ![last'.idx] = FreshProject] ELSE proj
    /\ io' = IO(<<last'.idx>>, 0)
    /\ UNCHANGED held

\* Engine and slot lifecycle against an engine that keeps a slot table.
NextSlots ==
    \/ \E s \in Instances : SunVox_init(s) /\ NativeInit
       /\ UNCHANGED pc
    \/ \E s \in Instances : SunVox_deinit(s) /\ NativeDeinit
       /\ UNCHANGED pc
    \/ \E h \in Handles : Slot_open(h) /\ NativeOpenSlot
       /\ UNCHANGED pc
    \/ \E h \in Handles : Slot_close(h) /\ NativeCloseSlot
       /\ UNCHANGED pc

SpecSlots == InitNative /\ [][NextSlots]_vars

\* ===================================================================
\* Properties
\* ===================================================================
\* The operations of Slot that forward one native call and are neither
\* open() nor close().
SlotPassThroughOps ==
    {"load", "load_from_memory", "save", "save_to_memory", "play",
     "play_from_beginning", "stop", "pause", "resume", "rewind", "send_event"}
        \cup SlotGetters \cup SlotSetters

\* The lock bodies of slot index i the caller is inside.
BodiesOf(i) == {k \in 1..Len(lockStack) : SlotNum(lockStack[k]) = i}

\* C1: an init() issued while the engine is initialized (by any instance)
\* raises without calling the native init and leaves the engine initialized;
\* a deinit() leaves the flag clear, and an init() issued with the flag clear
\* calls the native init once and succeeds exactly when it returns >= 0.
C1_InitWhileInitializedFails ==
    /\ (last.op = "init" /\ last.pre.initialized) =>
            /\ last.raised
            /\ last.ncalls = 0
            /\ initialized
            /\ engineLive = last.pre.engineLive
    /\ (last.op = "init" /\ ~last.pre.initialized) =>
            /\ last.ncalls = 1
            /\ last.raised = (last.rc < 0)
            /\ initialized = (last.rc >= 0)
    /\ last.op = "deinit" => ~initialized

\* C1 witness: a second instance's init() is refused while the first
\* instance holds the engine.
C1_Witness ==
    /\ last.op = "init" /\ last.who = 2 /\ last.raised /\ last.ncalls = 0
    /\ version[1].set /\ ~version[2].set /\ initialized

\* C2: the successful native inits not yet followed by a native deinit are
\* at most one, and there is one exactly when SunVox._initialized is True.
C2_AtMostOneLiveEngine ==
    /\ engineLive <= 1
    /\ (engineLive = 1) = initialized

\* C2 witness: the engine is live again after an init, deinit, init.
C2_Witness ==
    /\ engineLive = 1 /\ last.op = "init" /\ last.ncalls = 1
    /\ version[1].set /\ version[2].set

\* C3: is_open is False on a fresh handle, becomes True only by a successful
\* open() of that handle, stays True under every operation but its own
\* close(), is False after close(), and a close() of a handle that is not
\* open changes nothing and issues no native close_slot.
C3_IsOpenLifecycle ==
    /\ last.op = "none" => \A h \in Handles : ~is_open[h]
    /\ \A h \in Handles :
        /\ (is_open[h] /\ ~last.pre.is_open[h]) =>
                (last.op = "open" /\ last.who = h /\ last.rc >= 0)
        /\ (~is_open[h] /\ last.pre.is_open[h]) =>
                (last.op = "close" /\ last.who = h)
    /\ (last.op = "open" /\ last.rc >= 0) => is_open[last.who]
    /\ last.op = "close" =>
            /\ ~is_open[last.who]
            /\ last.ncalls = (IF last.pre.is_open[last.who] THEN 1 ELSE 0)
            /\ ~last.pre.is_open[last.who] => is_open = last.pre.is_open

\* C3 witness: a close() of a handle that is not open, while another handle
\* of the same slot index is open.
C3_Witness ==
    /\ last.op = "close" /\ last.who = 1 /\ last.ncalls = 0
    /\ ~is_open[1] /\ is_open[2]

\* C4: each lock body the caller is inside owes exactly one unlock_slot of
\* its slot index, and leaving a body - normally or by an exception - issues
\* exactly that one unlock; the exception then goes on (to the enclosing
\* body, or to the caller).
C4_UnlockOnEveryExit ==
    /\ \A i \in SlotIdx : lockBalance[i] = Cardinality(BodiesOf(i))
    /\ last.op = "unlock" =>
            /\ last.ncalls = 1
            /\ last.idx = SlotNum(last.who)
            /\ Len(lockStack) = last.pre.depth - 1
            /\ last.raised = last.pre.exc
            /\ exc = (last.pre.exc /\ lockStack # <<>>)

\* C4 witness: the outermost body was left by an exception, the unlock was
\* issued and the exception reached the caller.
C4_Witness ==
    /\ last.op = "unlock" /\ last.pre.exc /\ last.raised /\ last.ncalls = 1
    /\ lockStack = <<>> /\ ~exc

\* C5 as stated: a structural mutation reaches the native engine only while
\* the lock of its slot index is held.
C5_MutationOnlyUnderLock ==
    (last.op \in StructuralOps /\ last.ncalls > 0) => last.pre.lockHeld[last.idx]

\* C5 amended: every structural mutation is forwarded (one native call, with
\* the Slot's index) whether or not the lock is held, and neither takes nor
\* releases the lock; the lock of a slot index is held only while the caller
\* is inside a `with lock()` body of that index.
C5_MutationForwardedUnchecked ==
    /\ last.op \in StructuralOps =>
            /\ last.ncalls = 1
            /\ last.idx = SlotNum(last.who)
            /\ lockHeld = last.pre.lockHeld
            /\ Len(lockStack) = last.pre.depth
    /\ \A i \in SlotIdx : lockHeld[i] => BodiesOf(i) # {}

\* C5 witness: a new_module reached the engine with the lock of its slot
\* index free, inside a lock body of another index.
C5_Witness ==
    /\ last.op = "new_module" /\ last.ncalls = 1
    /\ ~last.pre.lockHeld[last.idx]
    /\ \E j \in SlotIdx : j # last.idx /\ lockHeld[j]

\* C6 as stated: once deinit() has deinitialized the engine no handle is
\* reported open, and close() issues no close_slot against a dead engine.
C6_NoOpenHandleAfterDeinit ==
    /\ (last.op = "deinit" /\ last.ncalls = 1) => \A h \in Handles : ~is_open[h]
    /\ (last.op = "close" /\ last.ncalls = 1) => last.pre.engineLive > 0

\* C7 as stated: a Slot operation other than open() reaches the native
\* engine only when the handle is open.
C7_ForwardedOnlyWhenOpen ==
    (last.op \in SlotPassThroughOps /\ last.ncalls > 0) => last.pre.is_open[last.who]

\* C7 amended: a Slot operation other than open() and close() is forwarded
\* whether or not the handle is open - one native call with the handle's
\* slot index, is_open untouched; only close() consults is_open.
C7_ForwardedWhateverIsOpen ==
    /\ last.op \in SlotPassThroughOps =>
            /\ last.ncalls = 1
            /\ last.idx = SlotNum(last.who)
            /\ is_open = last.pre.is_open
    /\ last.op = "close" => (last.ncalls = 1) = last.pre.is_open[last.who]

\* C7 witness: a load on a handle that is not open reached the engine.
C7_Witness ==
    /\ last.op = "load" /\ last.ncalls = 1 /\ ~last.pre.is_open[last.who]
    /\ initialized

\* C8: open() raises exactly when the native open_slot returns a negative
\* value - always so when no engine is live - and then is_open keeps its
\* value; is_open becomes True only on a result >= 0.
C8_OpenFailureKeepsIsOpen ==
    last.op = "open" =>
        /\ last.ncalls = 1
        /\ last.raised = (last.rc < 0)
        /\ last.pre.engineLive = 0 => last.raised
        /\ last.rc < 0 => is_open = last.pre.is_open
        /\ last.rc >= 0 => is_open = [last.pre.is_open EXCEPT ![last.who] = TRUE]

\* C8 witness: an open() failed on a handle that was never opened, with the
\* engine live.
C8_Witness ==
    /\ last.op = "open" /\ last.raised /\ last.rc < 0
    /\ ~is_open[last.who] /\ engineLive = 1

\* C9: a failed load() or load_from_memory() raises after one native call
\* and leaves is_open, the initialized flag, the versions and the engine's
\* sample rate as they were.
C9_LoadFailureChangesNothing ==
    (last.op \in {"load", "load_from_memory"} /\ last.rc < 0) =>
        /\ last.raised
        /\ last.ncalls = 1
        /\ is_open = last.pre.is_open
        /\ initialized = last.pre.initialized
        /\ version = last.pre.version
        /\ sample_rate = last.pre.sample_rate
        /\ engineLive = last.pre.engineLive

\* C9 witness: load_from_memory failed on an open handle of a live engine.
C9_Witness ==
    /\ last.op = "load_from_memory" /\ last.raised /\ last.rc < 0
    /\ is_open[last.who] /\ initialized /\ sample_rate \in Rates

\* The operations C10 names (lock and unlock are the two halves of lock()).
C10_Ops ==
    {"init", "open", "load", "load_from_memory", "save", "save_to_memory",
     "new_module", "load_module", "new_pattern", "lock", "connect_to",
     "disconnect_from", "Module.remove", "Pattern.remove", "set_size",
     "set_event", "mute", "unmute"} \cup SlotSetters

\* C10 as stated: no wrapper operation returns normally after its native
\* call returned a negative integer or null.
C10_EveryNativeFailureRaises ==
    (last.op \in C10_Ops /\ last.ncalls > 0 /\ (last.rc < 0 \/ last.null))
        => last.raised

\* ----------------------------------------------- volume and transport
MaxLine == 2                        \* the engine's play position stops advancing here
Volumes == {0, 128, 256}            \* values written to Slot.volume

\* The sign of a native int result: error, zero, positive.
Sgn(x) == IF x < 0 THEN -1 ELSE IF x = 0 THEN 0 ELSE 1

\* The wrapper forwarded `args`, the engine returned `r.ret` and left the
\* projects as `r.proj`.
ForwardedFor(input, args, r) ==
    /\ last'.rc = Sgn(r.ret)
    /\ proj' = r.proj
    /\ io' = Call(input, args, r.ret)
    /\ UNCHANGED <<nslots, held>>

Forwarded(args, r) == ForwardedFor(<<>>, args, r)

\* A read: the engine returned a value of sign `rc`, the operation returned
\* `ret` to the caller, and no project changed.
Returned(input, args, rc, ret) ==
    /\ last'.rc = rc
    /\ io' = Call(input, args, ret)
    /\ UNCHANGED <<nslots, proj, held>>

\* Slot.volume getter that passes 0 to the engine
Slot_volume_args_zero(slot) == <<slot, 0>>

\* Slot.volume getter: what it passes to _core.volume
Slot_volume_args(slot) == <<slot, -1>>

\* Slot.volume setter: what it passes to _core.volume
Slot_volume_setter_args(slot, value) == <<slot, value>>

\* _core.volume(slot, vol): returns the slot's volume before the call and
\* sets it to vol unless vol is negative; -1 on a slot that is not open.
NativeVolume(args) ==
    IF args[1] \notin nslots
    THEN [ret |-> -1, proj |-> proj]
    ELSE [ret |-> proj[args[1]].volume,
          proj |-> IF args[2] < 0 THEN proj
                   ELSE [proj EXCEPT ![args[1]].volume = args[2]]]

\* _core.play / _core.play_from_beginning / _core.stop on one project.  The
\* first stop halts playback where it is; a stop of a halted slot puts the
\* engine's slot into standby.
NativePlay(p) == [p EXCEPT !.state = "playing"]
NativePlayFromBeginning(p) == [p EXCEPT !.state = "playing", !.line = 0]
NativeStop(p) ==
    [p EXCEPT !.state = IF p.state = "playing" THEN "stopped" ELSE "standby"]

\* n native stop calls in a row.
RECURSIVE NativeStopTimes(_, _)
NativeStopTimes(p, n) == IF n = 0 THEN p ELSE NativeStopTimes(NativeStop(p), n - 1)

\* A transport call on slot index i whose effect on the project is f.
NativeTransport(i, after) ==
    IF i \notin nslots
    THEN [ret |-> -1, proj |-> proj]
    ELSE [ret |-> 0, proj |-> [proj EXCEPT ![i] = after]]

\* The engine's audio thread plays one more line of a playing slot.
Engine_tick(i) ==
    /\ ~exc
    /\ i \in nslots
    /\ proj[i].state = "playing"
    /\ proj[i].line < MaxLine
    /\ proj' = [proj EXCEPT ![i].line = @ + 1]
    /\ last' = Rec("tick", 0, i, 0, 0, FALSE, FALSE)
    /\ io' = IO(<<>>, 0)
    /\ UNCHANGED <<initialized, version, is_open, lockStack, exc, engineLive,
                   sample_rate, lockHeld, lockBalance, nslots, held>>

\* One engine instance, its slots and their volume.
NextVolume ==
    \/ SunVox_init(1) /\ NativeInit
       /\ UNCHANGED pc
    \/ \E h \in Handles : Slot_open(h) /\ NativeOpenSlot
       /\ UNCHANGED pc
    \/ \E h \in Handles : Slot_get(h, "volume")
            /\ Forwarded(Slot_volume_args(last'.idx),
                         NativeVolume(Slot_volume_args(last'.idx)))
       /\ UNCHANGED pc
    \/ \E h \in Handles, v \in Volumes : Slot_set(h, "volume.setter")
            /\ Forwarded(Slot_volume_setter_args(last'.idx, v),
                         NativeVolume(Slot_volume_setter_args(last'.idx, v)))
       /\ UNCHANGED pc

SpecVolume == InitNative /\ [][NextVolume]_vars

\* One engine instance, its slots and their transport.
NextPlay ==
    \/ SunVox_init(1) /\ NativeInit
       /\ UNCHANGED pc
    \/ \E h \in Handles : Slot_open(h) /\ NativeOpenSlot
       /\ UNCHANGED pc
    \/ \E h \in Handles : Slot_play(h)
            /\ Forwarded(<<last'.idx>>,
                         NativeTransport(last'.idx, NativePlay(proj[last'.idx])))
       /\ UNCHANGED pc
    \/ \E h \in Handles : Slot_play_from_beginning(h)
            /\ Forwarded(<<last'.idx>>,
                         NativeTransport(last'.idx, NativePlayFromBeginning(proj[last'.idx])))
       /\ UNCHANGED pc
    \/ \E h \in Handles : Slot_stop(h)
            /\ Forwarded(<<last'.idx>>,
                         NativeTransport(last'.idx,
                                         NativeStopTimes(proj[last'.idx], last'.ncalls)))
       /\ UNCHANGED pc
    \/ \E i \in SlotIdx : Engine_tick(i)
       /\ UNCHANGED pc

SpecPlay == InitNative /\ [][NextPlay]_vars

\* C18: after `slot.volume = v` on an open slot, v in 0..256, the slot's
\* volume is v; a read of slot.volume passes -1, returns the volume the slot
\* had and changes no project, so the read after a write returns v and any
\* number of reads in a row return the same value.
C18_VolumeReadBack ==
    /\ (last.op = "volume.setter" /\ last.idx \in nslots) =>
            /\ proj[last.idx].volume = io.args[2]
            /\ \A i \in SlotIdx \ {last.idx} : proj[i] = io.pre.proj[i]
    /\ last.op = "volume" =>
            /\ io.args[2] = -1
            /\ proj = io.pre.proj
            /\ last.idx \in nslots => io.ret = io.pre.proj[last.idx].volume

\* C18 witness: a read that returns the 128 written before it.
C18_Witness ==
    /\ last.op = "volume" /\ last.idx \in nslots
    /\ io.ret = 128 /\ proj[last.idx].volume = 128

\* C19: each stop() forwards exactly one native stop: from a playing slot it
\* halts playback and leaves the play position where it was, from a halted
\* slot it puts the transport into standby; nothing else changes.
C19_StopTwoPhase ==
    last.op = "stop" =>
        /\ last.ncalls = 1
        /\ last.idx \in nslots =>
            LET before == io.pre.proj[last.idx]
                after == proj[last.idx]
            IN  /\ before.state = "playing" =>
                        after.state = "stopped" /\ after.line = before.line
                /\ before.state = "stopped" => after.state = "standby"
                /\ after = [before EXCEPT !.state = after.state]
                /\ \A i \in SlotIdx \ {last.idx} : proj[i] = io.pre.proj[i]

\* C19 witness: the second stop() of a slot that was halted in the middle of
\* the song.
C19_Witness ==
    /\ last.op = "stop" /\ last.idx \in nslots
    /\ io.pre.proj[last.idx].state = "stopped"
    /\ proj[last.idx].state = "standby"
    /\ proj[last.idx].line > 0

\* ------------------------------------------------ projects in memory
\* The engine's serialisation of a project: a tagged sequence of its song
\* fields.  Bytes without the tag, or of another length, are malformed.
Encode(p) == <<"SVOX", p.name, p.bpm, p.volume>>
Wellformed(b) == Len(b) = 4 /\ b[1] = "SVOX"
Decode(b) == [FreshProject EXCEPT !.name = b[2], !.bpm = b[3], !.volume = b[4]]
Junk == <<"junk">>

\* The project files the caller can load.
Files == {[FreshProject EXCEPT !.name = "a"],
          [FreshProject EXCEPT !.name = "b", !.bpm = 140]}

\* _core.get_song_name / _core.get_song_bpm
NativeGetSongName(i) == IF i \in nslots THEN proj[i].name ELSE ""
NativeGetSongBpm(i) == IF i \in nslots THEN proj[i].bpm ELSE 0

\* Slot.name and Slot.bpm of a handle of slot index `slot`
Slot_name(slot) == NativeGetSongName(slot)
Slot_bpm(slot) == NativeGetSongBpm(slot)

\* _core.load(slot, filename): replaces the project of an open slot by the
\* file's, or fails and changes nothing.
NativeLoad(i, file, readable) ==
    IF i \in nslots /\ readable
    THEN [ret |-> 0, proj |-> [proj EXCEPT ![i] = file]]
    ELSE [ret |-> -1, proj |-> proj]

\* Slot.load_from_memory that always forwards slot index 0
Slot_load_from_memory_args_slot0(slot, data) == <<0, data>>

\* Slot.load_from_memory: what it passes to _core.load_from_memory
Slot_load_from_memory_args(slot, data) == <<slot, data>>

\* _core.load_from_memory(slot, data)
NativeLoadFromMemory(args) ==
    IF args[1] \in nslots /\ Wellformed(args[2])
    THEN [ret |-> 0, proj |-> [proj EXCEPT ![args[1]] = Decode(args[2])]]
    ELSE [ret |-> -1, proj |-> proj]

\* _core.save_to_memory(slot): the bytes of the slot's project, or None; the
\* caller keeps what Slot.save_to_memory returned.
NativeSaveToMemory ==
    /\ last'.idx \notin nslots => last'.null
    /\ held' = IF last'.null THEN held
               ELSE [bytes |-> Encode(proj[last'.idx]), src |-> last'.idx,
                     name |-> Slot_name(last'.idx), bpm |-> Slot_bpm(last'.idx)]
    /\ io' = IO(<<last'.idx>>, 0)
    /\ UNCHANGED <<nslots, proj>>

\* One engine instance, its slots, and projects moved between them.
NextSong ==
    \/ SunVox_init(1) /\ NativeInit
       /\ UNCHANGED pc
    \/ \E h \in Handles : Slot_open(h) /\ NativeOpenSlot
       /\ UNCHANGED pc
    \/ \E h \in Handles, f \in Files, readable \in BOOLEAN : Slot_load(h)
            /\ Forwarded(<<last'.idx, f>>, NativeLoad(last'.idx, f, readable))
       /\ UNCHANGED pc
    \/ \E h \in Handles : Slot_save_to_memory(h) /\ NativeSaveToMemory
       /\ UNCHANGED pc
    \/ \E h \in Handles, junk \in BOOLEAN : Slot_load_from_memory(h)
            /\ LET data == IF junk THEN Junk ELSE held.bytes
                   args == Slot_load_from_memory_args(last'.idx, data)
               IN  Forwarded(args, NativeLoadFromMemory(args))
       /\ UNCHANGED pc

SpecSong == InitNative /\ [][NextSong]_vars

\* C13: save_to_memory() changes no project; when the bytes saved from slot
\* A, whose name and bpm are still what they were at the save, are loaded
\* with load_from_memory() into another open slot B, B's name and bpm equal
\* A's and A's project is what it was before the load.
C13_RoundTripBetweenSlots ==
    /\ last.op = "save_to_memory" => proj = io.pre.proj
    /\ ( /\ last.op = "load_from_memory" /\ ~last.raised
         /\ held.src # -1 /\ io.args[2] = held.bytes
         /\ last.idx # held.src
         /\ io.pre.proj[held.src].name = held.name
         /\ io.pre.proj[held.src].bpm = held.bpm ) =>
            /\ Slot_name(last.idx) = Slot_name(held.src)
            /\ Slot_bpm(last.idx) = Slot_bpm(held.src)
            /\ Slot_name(held.src) = held.name
            /\ Slot_bpm(held.src) = held.bpm
            /\ proj[held.src] = io.pre.proj[held.src]

\* C13 witness: project "b" at 140 bpm, loaded into slot 0 from a file and
\* saved from there, arrives in the freshly opened slot 1.
C13_Witness ==
    /\ last.op = "load_from_memory" /\ ~last.raised
    /\ held.src = 0 /\ last.idx = 1 /\ io.args[2] = held.bytes
    /\ io.pre.proj[1] = FreshProject
    /\ held.name = "b" /\ held.bpm = 140
    /\ Slot_name(1) = "b" /\ Slot_bpm(1) = 140 /\ Slot_name(0) = "b"

\* ------------------------------------------------- modules and patterns
SV_MODULE_FLAG_GENERATOR == 2       \* bit 1 of a module's flag word
TestPatternLines == 16              \* the line count of a pattern the caller creates

\* a & b on non-negative integers
RECURSIVE BitAnd(_, _)
BitAnd(a, b) ==
    IF a = 0 \/ b = 0 THEN 0
    ELSE (a % 2) * (b % 2) + 2 * BitAnd(a \div 2, b \div 2)

\* _core.get_module_flags: the flag word of a module index, 0 for an index
\* that holds no module or a slot that is not open.
NativeGetModuleFlags(i, m) == IF i \in nslots THEN proj[i].mods[m] ELSE 0

\* _core.get_module_type / _core.get_module_name: empty for an index that
\* holds no module.
NativeGetModuleType(i, m) ==
    IF NativeGetModuleFlags(i, m) = 0 THEN ""
    ELSE IF m = 0 THEN "Output" ELSE "Generator"

\* _core.get_pattern_lines: 0 for an index that holds no pattern, -1 for a
\* slot that is not open.
NativeGetPatternLines(i, p) == IF i \in nslots THEN proj[i].pats[p].lines ELSE -1

\* Module.exists that tests the GENERATOR bit
Module_exists_generator_bit(flags) == BitAnd(flags, SV_MODULE_FLAG_GENERATOR) # 0

\* Module.exists, from the flag word the engine returned
Module_exists(flags) == BitAnd(flags, SV_MODULE_FLAG_EXISTS) # 0

\* Pattern.exists, from the line count the engine returned
Pattern_exists(lines) == lines > 0

\* Module.exists / type / name / flags: each is one native query whose
\* result the property returns
ModuleGetters == {"Module.exists", "Module.type", "Module.name", "Module.flags"}

Module_get(h, prop) ==
    \E result \in NativeRc : SlotCall(h, prop, result, FALSE, FALSE)

\* What a Module property of module m of slot index i returns.
Module_value(prop, i, m) ==
    CASE prop = "Module.exists" -> Module_exists(NativeGetModuleFlags(i, m))
      [] prop = "Module.flags" -> NativeGetModuleFlags(i, m)
      [] OTHER -> NativeGetModuleType(i, m)

\* Pattern.exists: one native query
Pattern_get(h, prop) ==
    \E result \in NativeRc : SlotCall(h, prop, result, FALSE, FALSE)

\* _core.new_module: the new generator takes the lowest free index.
NativeNewModule(i) ==
    LET free == {m \in ModIdx : proj[i].mods[m] = 0}
        m == CHOOSE x \in free : \A y \in free : x <= y
    IN  IF i \in nslots /\ free # {}
        THEN [ret |-> m,
              proj |-> [proj EXCEPT ![i].mods[m] =
                            SV_MODULE_FLAG_EXISTS + SV_MODULE_FLAG_GENERATOR]]
        ELSE [ret |-> -1, proj |-> proj]

\* _core.new_pattern: the new, unmuted pattern takes the lowest free index.
NativeNewPattern(i, lines) ==
    LET free == {p \in PatIdx : proj[i].pats[p].lines = 0}
        p == CHOOSE x \in free : \A y \in free : x <= y
    IN  IF i \in nslots /\ free # {}
        THEN [ret |-> p,
              proj |-> [proj EXCEPT ![i].pats[p] =
                            [lines |-> lines, muted |-> FALSE, cells |-> NoCells]]]
        ELSE [ret |-> -1, proj |-> proj]

\* Module.remove that always forwards slot index 0
Module_remove_args_slot0(slot, mod_num) == <<0, mod_num>>

\* Module.remove: what it passes to _core.remove_module
Module_remove_args(slot, mod_num) == <<slot, mod_num>>

\* Pattern.remove: what it passes to _core.remove_pattern
Pattern_remove_args(slot, pat_num) == <<slot, pat_num>>

\* _core.remove_module: empties the index, or fails when it holds no module
\* or holds the Output module, which cannot be removed.
NativeRemoveModule(args) ==
    IF NativeGetModuleFlags(args[1], args[2]) # 0 /\ args[2] # 0
    THEN [ret |-> 0, proj |-> [proj EXCEPT ![args[1]].mods[args[2]] = 0]]
    ELSE [ret |-> -1, proj |-> proj]

\* _core.remove_pattern: empties the index, or fails when it holds no pattern.
NativeRemovePattern(args) ==
    IF NativeGetPatternLines(args[1], args[2]) > 0
    THEN [ret |-> 0, proj |-> [proj EXCEPT ![args[1]].pats[args[2]] = NoPattern]]
    ELSE [ret |-> -1, proj |-> proj]

\* Pattern.mute that forwards the opposite of the pattern's muted state
Pattern_mute_args_toggle(slot, pat_num) ==
    <<slot, pat_num, IF slot \in nslots /\ proj[slot].pats[pat_num].muted THEN 0 ELSE 1>>

\* Pattern.mute / Pattern.unmute: what they pass to _core.pattern_mute
Pattern_mute_args(slot, pat_num) == <<slot, pat_num, 1>>
Pattern_unmute_args(slot, pat_num) == <<slot, pat_num, 0>>

\* _core.pattern_mute(slot, pat, mute): returns whether the pattern was
\* muted and sets its muted state to `mute` unless that is negative; -1
\* when the index holds no pattern.
NativePatternMute(args) ==
    IF NativeGetPatternLines(args[1], args[2]) > 0
    THEN [ret |-> IF proj[args[1]].pats[args[2]].muted THEN 1 ELSE 0,
          proj |-> IF args[3] < 0 THEN proj
                   ELSE [proj EXCEPT ![args[1]].pats[args[2]].muted = (args[3] = 1)]]
    ELSE [ret |-> -1, proj |-> proj]

\* One engine instance, its slots, and the modules and patterns in them,
\* reached through Module and Pattern references (slot handle, index).
NextEntity ==
    \/ SunVox_init(1) /\ NativeInit
       /\ UNCHANGED pc
    \/ \E h \in Handles : Slot_open(h) /\ NativeOpenSlot
       /\ UNCHANGED pc
    \/ \E h \in Handles : Slot_new_module(h)
            /\ Forwarded(<<last'.idx>>, NativeNewModule(last'.idx))
       /\ UNCHANGED pc
    \/ \E h \in Handles : Slot_new_pattern(h)
            /\ Forwarded(<<last'.idx, TestPatternLines>>,
                         NativeNewPattern(last'.idx, TestPatternLines))
       /\ UNCHANGED pc
    \/ \E h \in Handles, m \in ModIdx : Module_remove(h)
            /\ ForwardedFor(<<m>>, Module_remove_args(last'.idx, m),
                            NativeRemoveModule(Module_remove_args(last'.idx, m)))
       /\ UNCHANGED pc
    \/ \E h \in Handles, p \in PatIdx : Pattern_remove(h)
            /\ ForwardedFor(<<p>>, Pattern_remove_args(last'.idx, p),
                            NativeRemovePattern(Pattern_remove_args(last'.idx, p)))
       /\ UNCHANGED pc
    \/ \E h \in Handles, m \in ModIdx, prop \in ModuleGetters : Module_get(h, prop)
            /\ Returned(<<m>>, <<last'.idx, m>>,
                        IF prop \in {"Module.exists", "Module.flags"}
                        THEN Sgn(NativeGetModuleFlags(last'.idx, m)) ELSE 0,
                        Module_value(prop, last'.idx, m))
       /\ UNCHANGED pc
    \/ \E h \in Handles, p \in PatIdx : Pattern_get(h, "Pattern.exists")
            /\ Returned(<<p>>, <<last'.idx, p>>,
                        Sgn(NativeGetPatternLines(last'.idx, p)),
                        Pattern_exists(NativeGetPatternLines(last'.idx, p)))
       /\ UNCHANGED pc

SpecEntity == InitNative /\ [][NextEntity]_vars

\* One engine instance, its slots, and the muting of their patterns.
NextMute ==
    \/ SunVox_init(1) /\ NativeInit
       /\ UNCHANGED pc
    \/ \E h \in Handles : Slot_open(h) /\ NativeOpenSlot
       /\ UNCHANGED pc
    \/ \E h \in Handles : Slot_new_pattern(h)
            /\ Forwarded(<<last'.idx, TestPatternLines>>,
                         NativeNewPattern(last'.idx, TestPatternLines))
       /\ UNCHANGED pc
    \/ \E h \in Handles, p \in PatIdx : Pattern_mute(h)
            /\ ForwardedFor(<<p>>, Pattern_mute_args(last'.idx, p),
                            NativePatternMute(Pattern_mute_args(last'.idx, p)))
       /\ UNCHANGED pc
    \/ \E h \in Handles, p \in PatIdx : Pattern_unmute(h)
            /\ ForwardedFor(<<p>>, Pattern_unmute_args(last'.idx, p),
                            NativePatternMute(Pattern_unmute_args(last'.idx, p)))
       /\ UNCHANGED pc

SpecMute == InitNative /\ [][NextMute]_vars

\* The pattern of the reference the latest operation was called on, before
\* and after the operation.
PatternBefore == io.pre.proj[last.idx].pats[io.input[1]]
PatternAfter == proj[last.idx].pats[io.input[1]]

\* C14: mute() forwards 1 and unmute() forwards 0, whatever the pattern's
\* state; on an existing pattern mute() leaves it muted and unmute() leaves
\* it unmuted and nothing else changes, so a second mute() (unmute()) in a
\* row leaves the state of the first.
C14_MuteIdempotent ==
    /\ last.op = "mute" =>
            /\ io.args = <<last.idx, io.input[1], 1>>
            /\ (last.idx \in nslots /\ PatternBefore.lines > 0) =>
                    /\ PatternAfter.muted
                    /\ proj = [io.pre.proj EXCEPT
                                ![last.idx].pats[io.input[1]].muted = TRUE]
                    /\ PatternBefore.muted => proj = io.pre.proj
    /\ last.op = "unmute" =>
            /\ io.args = <<last.idx, io.input[1], 0>>
            /\ (last.idx \in nslots /\ PatternBefore.lines > 0) =>
                    /\ ~PatternAfter.muted
                    /\ proj = [io.pre.proj EXCEPT
                                ![last.idx].pats[io.input[1]].muted = FALSE]
                    /\ ~PatternBefore.muted => proj = io.pre.proj

\* C14 witness: mute() on a pattern that is already muted.
C14_Witness ==
    /\ last.op = "mute" /\ last.idx \in nslots
    /\ PatternBefore.lines > 0 /\ PatternBefore.muted /\ PatternAfter.muted

\* C15: once Module.remove() (Pattern.remove()) has removed the entity at
\* (slot, index), exists reads False through every reference to that
\* (slot, index), whichever handle of the slot it was made from; and a read
\* of exists never raises.
C15_StaleReferenceDoesNotExist ==
    /\ (last.op = "Module.remove" /\ io.ret >= 0) =>
            \A h \in Handles : SlotNum(h) = last.idx =>
                ~Module_value("Module.exists", SlotNum(h), io.input[1])
    /\ (last.op = "Pattern.remove" /\ io.ret >= 0) =>
            \A h \in Handles : SlotNum(h) = last.idx =>
                ~Pattern_exists(NativeGetPatternLines(SlotNum(h), io.input[1]))
    /\ last.op \in {"Module.exists", "Pattern.exists"} =>
            /\ ~last.raised
            /\ proj = io.pre.proj
    /\ (last.op = "Module.exists" /\ proj[last.idx].mods[io.input[1]] = 0) =>
            io.ret = FALSE
    /\ (last.op = "Pattern.exists" /\ proj[last.idx].pats[io.input[1]] = NoPattern) =>
            io.ret = FALSE

\* C15 witness: module 1 of an open slot was created and has just been
\* removed.
C15_Witness ==
    /\ last.op = "Module.remove" /\ io.ret >= 0 /\ io.input[1] = 1
    /\ io.pre.proj[last.idx].mods[1] # 0
    /\ proj[last.idx].mods[1] = 0

\* C16: Module.exists returns True exactly when bit 0 of the flag word the
\* engine holds for the index is set; Pattern.exists returns True exactly
\* when the engine's line count for the index is greater than zero; and a
\* read of exists, type, name or flags of an index whose EXISTS bit is clear
\* raises nothing.
C16_ExistsIsDerived ==
    /\ last.op = "Module.exists" =>
            (io.ret = TRUE <=>
                NativeGetModuleFlags(last.idx, io.input[1]) % 2 = 1)
    /\ last.op = "Pattern.exists" =>
            (io.ret = TRUE <=>
                NativeGetPatternLines(last.idx, io.input[1]) \in 1..TestPatternLines)
    /\ (last.op \in ModuleGetters
            /\ NativeGetModuleFlags(last.idx, io.input[1]) % 2 = 0) =>
            ~last.raised

\* C16 witness: exists read True for the Output module, whose flag word has
\* the EXISTS bit and no other.
C16_Witness ==
    /\ last.op = "Module.exists" /\ io.ret = TRUE
    /\ NativeGetModuleFlags(last.idx, io.input[1]) = SV_MODULE_FLAG_EXISTS

\* ------------------------------------------------------ pattern events
\* _core.get_pattern_event(slot, pat, track, line, column): one field of a
\* cell, -1 when the index holds no pattern.
NativeGetPatternEvent(i, p, track, line, column) ==
    IF NativeGetPatternLines(i, p) > 0
    THEN proj[i].pats[p].cells[<<track, line>>][column + 1]
    ELSE -1

\* _core.set_pattern_event(slot, pat, track, line, nn, vv, mm, ccee, xxyy):
\* writes the fields whose argument is not negative.
NativeSetPatternEvent(args) ==
    IF NativeGetPatternLines(args[1], args[2]) > 0
    THEN [ret |-> 0,
          proj |-> [proj EXCEPT ![args[1]].pats[args[2]].cells[<<args[3], args[4]>>] =
                        [k \in 1..5 |-> IF args[4 + k] < 0 THEN @[k] ELSE args[4 + k]]]]
    ELSE [ret |-> -1, proj |-> proj]

\* Pattern.get_event: five native queries, columns 0..4 in this order
Pattern_get_event(h) ==
    /\ ~exc
    /\ \E result \in NativeRc :
        last' = Rec("get_event", h, SlotNum(h), 5, result, FALSE, FALSE)
    /\ exc' = Propagates(FALSE)
    /\ UNCHANGED <<initialized, version, is_open, engineLive, sample_rate,
                   lockStack, lockHeld, lockBalance>>

\* The tuple Pattern.get_event(track, line) returns
Pattern_get_event_value(slot, pat_num, track, line) ==
    <<NativeGetPatternEvent(slot, pat_num, track, line, 0),
      NativeGetPatternEvent(slot, pat_num, track, line, 1),
      NativeGetPatternEvent(slot, pat_num, track, line, 2),
      NativeGetPatternEvent(slot, pat_num, track, line, 3),
      NativeGetPatternEvent(slot, pat_num, track, line, 4)>>

\* Pattern.set_event that passes vel before note
Pattern_set_event_args_swapped(slot, pat_num, track, line, ev) ==
    <<slot, pat_num, track, line, ev[2], ev[1], ev[3], ev[4], ev[5]>>

\* Pattern.set_event: what it passes to _core.set_pattern_event, for the
\* event arguments ev = <<note, vel, module, ctl, ctl_val>>
Pattern_set_event_args(slot, pat_num, track, line, ev) ==
    <<slot, pat_num, track, line, ev[1], ev[2], ev[3], ev[4], ev[5]>>

\* The event arguments the caller passes: the defaults, note / vel / module
\* as in the test, another note alone, and ctl / ctl_val alone.
EventArgs ==
    {<<-1, -1, -1, -1, -1>>, <<60, 100, 1, -1, -1>>, <<61, -1, -1, -1, -1>>,
     <<-1, -1, -1, 7, 3>>}

\* One engine instance, slot 0 with one pattern, and the events of its cells.
NextEvents ==
    \/ SunVox_init(1) /\ NativeInit
       /\ UNCHANGED pc
    \/ Slot_open(1) /\ NativeOpenSlot
       /\ UNCHANGED pc
    \/ /\ proj[SlotNum(1)].pats[0].lines = 0
       /\ Slot_new_pattern(1)
       /\ Forwarded(<<last'.idx, TestPatternLines>>,
                    NativeNewPattern(last'.idx, TestPatternLines))
       /\ UNCHANGED pc
    \/ \E h \in Handles, p \in PatIdx, c \in Cells, ev \in EventArgs :
            Pattern_set_event(h)
            /\ ForwardedFor(<<p, c[1], c[2], ev>>,
                            Pattern_set_event_args(last'.idx, p, c[1], c[2], ev),
                            NativeSetPatternEvent(
                                Pattern_set_event_args(last'.idx, p, c[1], c[2], ev)))
       /\ UNCHANGED pc
    \/ \E h \in Handles, p \in PatIdx, c \in Cells : Pattern_get_event(h)
            /\ Returned(<<p, c[1], c[2]>>, <<last'.idx, p, c[1], c[2]>>,
                        Sgn(NativeGetPatternEvent(last'.idx, p, c[1], c[2], 4)),
                        Pattern_get_event_value(last'.idx, p, c[1], c[2]))
       /\ UNCHANGED pc

SpecEvents == InitNative /\ [][NextEvents]_vars

\* C17: after set_event(track, line, note, vel, module, ctl, ctl_val) on an
\* existing pattern, get_event(track, line) returns for each field the
\* argument when it was >= 0 and the cell's previous value when it was -1;
\* every other cell, and everything else in the projects, is unchanged; and
\* get_event returns the cell's five fields in order and changes nothing.
C17_SetEventThenGetEvent ==
    /\ (last.op = "set_event" /\ NativeGetPatternLines(last.idx, io.input[1]) > 0) =>
            LET pat == io.input[1]
                cell == <<io.input[2], io.input[3]>>
                ev == io.input[4]
                before == io.pre.proj[last.idx].pats[pat].cells
                got == Pattern_get_event_value(last.idx, pat, cell[1], cell[2])
            IN  /\ \A k \in 1..5 :
                        got[k] = IF ev[k] >= 0 THEN ev[k] ELSE before[cell][k]
                /\ \A c \in Cells \ {cell} :
                        proj[last.idx].pats[pat].cells[c] = before[c]
                /\ proj = [io.pre.proj EXCEPT ![last.idx].pats[pat].cells[cell] =
                                proj[last.idx].pats[pat].cells[cell]]
    /\ last.op = "get_event" =>
            /\ last.ncalls = 5
            /\ ~last.raised
            /\ proj = io.pre.proj
            /\ NativeGetPatternLines(last.idx, io.input[1]) > 0 =>
                    io.ret = proj[last.idx].pats[io.input[1]].cells[<<io.input[2], io.input[3]>>]

\* C17 witness: a set_event that writes the note alone into a cell that
\* already holds note 60, vel 100, module 1, while the other cell holds an
\* event of its own.
C17_Witness ==
    /\ last.op = "set_event" /\ io.input[1] = 0
    /\ io.input[4] = <<61, -1, -1, -1, -1>>
    /\ io.pre.proj[last.idx].pats[0].cells[<<io.input[2], io.input[3]>>]
            = <<60, 100, 1, 0, 0>>
    /\ Pattern_get_event_value(last.idx, 0, io.input[2], io.input[3])
            = <<61, 100, 1, 0, 0>>
    /\ \E c \in Cells : c # <<io.input[2], io.input[3]>>
            /\ proj[last.idx].pats[0].cells[c] = <<0, 0, 0, 7, 3>>

\* ------------------------------------------------ command-line program
\* main() of __main__.py, one command after another in the same process.
\* pc is the command in progress: its arguments, where it is (`at`), the
\* return value a `return` inside the with blocks is carrying (`ret`), the
\* exception that is propagating (`pending`), what it printed, the native
\* calls it issued, and how main() ended.
Commands == {"songs", "info", "play"}
Paths == {"none", "missing", "file", "dir"}     \* no argument, or what the path names
Requested == {-1, 1, 3}                         \* play --duration; -1: not given
SongDurations == {1, 2}                         \* length_frames / sample_rate
ModuleArgs == {-1, 0, 1}                        \* info --module; -1: not given

CliIdle ==
    [cmd |-> "none", path |-> "none", lib_version |-> FALSE, module |-> -1,
     requested |-> -1, at |-> "done", ret |-> 0, pending |-> "none",
     printed |-> {}, calls |-> 0, inits |-> 0, deinits |-> 0, stops |-> 0,
     elapsed |-> 0, play_duration |-> 0, interrupted |-> FALSE,
     exit |-> 0, escaped |-> FALSE]

allButPc == <<initialized, version, is_open, lockStack, exc, engineLive,
              sample_rate, lockHeld, lockBalance, last, nslots, proj, held, io>>

\* The command line is parsed and args.func(args) is called.  Only `info`
\* takes its path as an optional argument (nargs="?").
main(cmd, path, lib_version, module, requested) ==
    /\ pc.at = "done" /\ ~pc.escaped
    /\ path = "none" => cmd = "info"
    /\ pc' = [CliIdle EXCEPT !.cmd = cmd, !.path = path, !.lib_version = lib_version,
                             !.module = module, !.requested = requested,
                             !.at = "start", !.exit = -1]
    /\ UNCHANGED allButPc

\* The function returns `code` without entering a with block.
Returns(code, printed) ==
    /\ pc' = [pc EXCEPT !.at = "done", !.exit = code, !.printed = @ \cup printed]
    /\ UNCHANGED allButPc

\* cmd_songs, up to the with block
cmd_songs ==
    /\ pc.at = "start" /\ pc.cmd = "songs"
    /\ IF pc.path = "missing" THEN Returns(1, {"error"})
       ELSE IF pc.path # "dir" THEN Returns(1, {"error"})
       ELSE \/ Returns(0, {"no files"})
            \/ /\ pc' = [pc EXCEPT !.at = "sv_enter"]
               /\ UNCHANGED allButPc

\* cmd_info that looks for the file only after the engine work
cmd_info_no_file_check ==
    /\ pc.at = "start" /\ pc.cmd = "info"
    /\ IF pc.lib_version
       THEN /\ pc' = [pc EXCEPT !.at = "sv_enter"]
            /\ UNCHANGED allButPc
       ELSE IF pc.path = "none" THEN Returns(1, {"error"})
       ELSE /\ pc' = [pc EXCEPT !.at = "sv_enter"]
            /\ UNCHANGED allButPc

\* cmd_info, up to a with block: --version first, then the file tests
cmd_info ==
    /\ pc.at = "start" /\ pc.cmd = "info"
    /\ IF pc.lib_version
       THEN /\ pc' = [pc EXCEPT !.at = "sv_enter"]
            /\ UNCHANGED allButPc
       ELSE IF pc.path = "none" THEN Returns(1, {"error"})
       ELSE IF pc.path = "missing" THEN Returns(1, {"error"})
       ELSE /\ pc' = [pc EXCEPT !.at = "sv_enter"]
            /\ UNCHANGED allButPc

\* cmd_play, up to the with block
cmd_play ==
    /\ pc.at = "start" /\ pc.cmd = "play"
    /\ IF pc.path = "missing" THEN Returns(1, {"error"})
       ELSE /\ pc' = [pc EXCEPT !.at = "sv_enter"]
            /\ UNCHANGED allButPc

\* A wrapper call made at pc.at inside the slot's with block has returned:
\* SunVoxError leaves the block through Slot.__exit__, otherwise the command
\* goes on at `next`.
AfterCall(next) ==
    [pc EXCEPT !.calls = @ + last'.ncalls,
               !.pending = IF last'.raised THEN "SunVoxError" ELSE @,
               !.at = IF last'.raised THEN "slot_exit" ELSE next]

\* `with SunVox() as sv:` is entered: SunVox.__enter__ calls init(); when it
\* raises, no __exit__ runs and the exception leaves the function.
SunVox_enter ==
    /\ pc.at = "sv_enter"
    /\ SunVox_init(1) /\ NativeInit
    /\ pc' = IF last'.raised
             THEN [pc EXCEPT !.calls = @ + last'.ncalls, !.pending = "SunVoxError",
                             !.at = "done", !.escaped = TRUE]
             ELSE [pc EXCEPT !.calls = @ + last'.ncalls, !.inits = @ + 1,
                             !.at = IF pc.lib_version /\ pc.cmd = "info"
                                    THEN "version" ELSE "slot_enter"]

\* `with sv.open_slot(0) as slot:` is entered: Slot.__enter__ calls open();
\* when it raises, Slot.__exit__ does not run and SunVox.__exit__ does.
Slot_enter ==
    /\ pc.at = "slot_enter"
    /\ Slot_open(1) /\ NativeOpenSlot
    /\ pc' = [pc EXCEPT !.calls = @ + last'.ncalls,
                        !.pending = IF last'.raised THEN "SunVoxError" ELSE @,
                        !.at = IF last'.raised THEN "sv_exit" ELSE "load"]

\* Slot.__exit__ that does not close when an exception is propagating
Slot_exit_only_on_success ==
    /\ pc.at = "slot_exit"
    /\ IF pc.pending = "none"
       THEN Slot_close(1) /\ NativeCloseSlot
       ELSE /\ last' = Rec("close", 1, -1, 0, 0, FALSE, FALSE)
            /\ io' = IO(<<>>, 0)
            /\ UNCHANGED <<initialized, version, is_open, lockStack, exc, engineLive,
                           sample_rate, lockHeld, lockBalance, nslots, proj, held>>
    /\ pc' = [pc EXCEPT !.calls = @ + last'.ncalls, !.at = "sv_exit"]

\* The slot's with block is left, by its end, a return or an exception:
\* Slot.__exit__ calls close() and returns None, so the exception goes on.
Slot_exit ==
    /\ pc.at = "slot_exit"
    /\ Slot_close(1) /\ NativeCloseSlot
    /\ pc' = [pc EXCEPT !.calls = @ + last'.ncalls, !.at = "sv_exit"]

\* The engine's with block is left: SunVox.__exit__ calls deinit(); then the
\* function returns the value it was carrying, or the exception leaves
\* main(), which has no handler.
SunVox_exit ==
    /\ pc.at = "sv_exit"
    /\ SunVox_deinit(1) /\ NativeDeinit
    /\ pc' = [pc EXCEPT !.calls = @ + last'.ncalls, !.deinits = @ + last'.ncalls,
                        !.at = "done",
                        !.escaped = (pc.pending # "none"),
                        !.exit = IF pc.pending # "none" THEN -1 ELSE pc.ret]

\* cmd_info --version: the body of the engine's with block
cmd_info_version ==
    /\ pc.at = "version"
    /\ \E rate \in NativeRc : last' = Rec("sample_rate", 1, -1, 1, rate, FALSE, FALSE)
    /\ io' = IO(<<>>, sample_rate)
    /\ pc' = [pc EXCEPT !.calls = @ + 1, !.printed = @ \cup {"version"},
                        !.ret = 0, !.at = "sv_exit"]
    /\ UNCHANGED <<initialized, version, is_open, lockStack, exc, engineLive,
                   sample_rate, lockHeld, lockBalance, nslots, proj, held>>

\* slot.load(str(filepath)) in cmd_info and cmd_play
cmd_load ==
    /\ pc.at = "load" /\ pc.cmd \in {"info", "play"}
    /\ \E f \in Files, readable \in BOOLEAN : Slot_load(1)
            /\ Forwarded(<<last'.idx, f>>, NativeLoad(last'.idx, f, readable))
    /\ pc' = AfterCall(IF pc.cmd = "play" THEN "duration"
                       ELSE IF pc.module # -1 THEN "module" ELSE "summary")

\* cmd_songs: the loop body for one file; any exception is caught and the
\* error is printed in the file's row.
cmd_songs_file ==
    /\ pc.at = "load" /\ pc.cmd = "songs"
    /\ \E f \in Files, readable \in BOOLEAN : Slot_load(1)
            /\ Forwarded(<<last'.idx, f>>, NativeLoad(last'.idx, f, readable))
    /\ pc' = [pc EXCEPT !.calls = @ + last'.ncalls,
                        !.printed = @ \cup {IF last'.raised THEN "row error" ELSE "row"},
                        !.ret = 0, !.at = "slot_exit"]

\* cmd_info --module that prints the detail without testing mod.exists
cmd_info_module_unchecked ==
    /\ pc.at = "module"
    /\ Module_get(1, "Module.exists")
    /\ Returned(<<pc.module>>, <<last'.idx, pc.module>>,
                Sgn(NativeGetModuleFlags(last'.idx, pc.module)),
                Module_value("Module.exists", last'.idx, pc.module))
    /\ pc' = [pc EXCEPT !.calls = @ + 1, !.printed = @ \cup {"detail"},
                        !.ret = 0, !.at = "slot_exit"]

\* cmd_info --module: mod.exists decides between the error with `return 1`
\* from inside both with blocks and the module's detail
cmd_info_module ==
    /\ pc.at = "module"
    /\ Module_get(1, "Module.exists")
    /\ Returned(<<pc.module>>, <<last'.idx, pc.module>>,
                Sgn(NativeGetModuleFlags(last'.idx, pc.module)),
                Module_value("Module.exists", last'.idx, pc.module))
    /\ pc' = IF io'.ret
             THEN [pc EXCEPT !.calls = @ + 1, !.printed = @ \cup {"detail"},
                             !.ret = 0, !.at = "slot_exit"]
             ELSE [pc EXCEPT !.calls = @ + 1, !.printed = @ \cup {"error"},
                             !.ret = 1, !.at = "slot_exit"]

\* cmd_info: the listings and the default summary, read property by property
cmd_info_summary ==
    /\ pc.at = "summary"
    /\ Slot_get(1, "name")
    /\ Returned(<<>>, <<last'.idx>>, 0, Slot_name(last'.idx))
    /\ pc' = [pc EXCEPT !.calls = @ + 1, !.printed = @ \cup {"summary"},
                        !.ret = 0, !.at = "slot_exit"]
\* cmd_play: duration and play_duration, then the messages (the reads of
\* length_frames, sample_rate and name are one step: nothing runs between them)
cmd_play_duration ==
    /\ pc.at = "duration"
    /\ Slot_get(1, "length_frames")
    /\ \E d \in SongDurations :
        /\ Returned(<<>>, <<last'.idx>>, 1, d)
        /\ pc' = [pc EXCEPT !.calls = @ + 1,
                            !.play_duration =
                                IF pc.requested = -1 \/ d < pc.requested
                                THEN d ELSE pc.requested,
                            !.printed = @ \cup {"playing"},
                            !.at = "volume"]

\* cmd_play: slot.volume = args.volume, the last statement before the try
cmd_play_volume ==
    /\ pc.at = "volume"
    /\ Slot_set(1, "volume.setter")
    /\ Forwarded(Slot_volume_setter_args(last'.idx, 256),
                 NativeVolume(Slot_volume_setter_args(last'.idx, 256)))
    /\ pc' = AfterCall("play")

\* cmd_play, in the try block: slot.play() and start_time = time.time()
cmd_play_play ==
    /\ pc.at = "play"
    /\ Slot_play(1)
    /\ Forwarded(<<last'.idx>>, NativeTransport(last'.idx, NativePlay(proj[last'.idx])))
    /\ pc' = AfterCall("loop")

\* while time.time() - start_time < play_duration
cmd_play_loop ==
    /\ pc.at = "loop"
    /\ pc' = [pc EXCEPT !.at = IF pc.elapsed < pc.play_duration
                               THEN "poll_playing" ELSE "stop"]
    /\ UNCHANGED allButPc

\* if not slot.is_playing ...: Slot.is_playing is end_of_song == 0
cmd_play_poll_playing ==
    /\ pc.at = "poll_playing"
    /\ Slot_get(1, "is_playing")
    /\ LET playing == last'.idx \in nslots /\ proj[last'.idx].state = "playing"
       IN  /\ Returned(<<>>, <<last'.idx>>, IF playing THEN 0 ELSE 1, playing)
           /\ pc' = [pc EXCEPT !.calls = @ + 1,
                               !.at = IF playing THEN "sleep" ELSE "poll_autostop"]

\* ... and slot.autostop: break
cmd_play_poll_autostop ==
    /\ pc.at = "poll_autostop"
    /\ Slot_get(1, "autostop")
    /\ \E autostop \in {0, 1} :
        /\ Returned(<<>>, <<last'.idx>>, autostop, autostop = 1)
        /\ pc' = [pc EXCEPT !.calls = @ + 1,
                            !.at = IF autostop = 1 THEN "stop" ELSE "sleep"]

\* time.sleep(0.1): the clock the loop condition reads moves on
cmd_play_sleep ==
    /\ pc.at = "sleep"
    /\ pc' = [pc EXCEPT !.elapsed = @ + 1, !.at = "loop"]
    /\ UNCHANGED allButPc

\* slot.stop() after the loop, the last statement of the try block
cmd_play_stop ==
    /\ pc.at = "stop"
    /\ Slot_stop(1)
    /\ Forwarded(<<last'.idx>>,
                 NativeTransport(last'.idx, NativeStopTimes(proj[last'.idx], last'.ncalls)))
    /\ pc' = [pc EXCEPT !.calls = @ + last'.ncalls, !.stops = @ + 1, !.at = "end_try"]

\* The try block is left at its end; the with blocks follow and `return 0`.
cmd_play_end_try ==
    /\ pc.at = "end_try"
    /\ pc' = [pc EXCEPT !.ret = 0, !.at = "slot_exit"]
    /\ UNCHANGED allButPc

\* The positions of cmd_play inside the try block.  "end_try": slot.stop()
\* has returned and the block is not left yet.
TryBlock == {"play", "loop", "poll_playing", "poll_autostop", "sleep", "stop", "end_try"}

\* Ctrl+C: KeyboardInterrupt is raised in the main thread between two
\* instructions of the try block and control goes to the except clause.
KeyboardInterrupt ==
    /\ pc.at \in TryBlock /\ ~pc.interrupted
    /\ pc' = [pc EXCEPT !.interrupted = TRUE, !.at = "except"]
    /\ UNCHANGED allButPc

\* except KeyboardInterrupt: slot.stop() and the message
cmd_play_except ==
    /\ pc.at = "except"
    /\ Slot_stop(1)
    /\ Forwarded(<<last'.idx>>,
                 NativeTransport(last'.idx, NativeStopTimes(proj[last'.idx], last'.ncalls)))
    /\ pc' = [pc EXCEPT !.calls = @ + last'.ncalls, !.stops = @ + 1,
                        !.printed = @ \cup {"stopped"}, !.ret = 0, !.at = "slot_exit"]

\* The engine reaches the end of the song it is playing.
Engine_end_of_song(i) ==
    /\ i \in nslots
    /\ proj[i].state = "playing"
    /\ proj' = [proj EXCEPT ![i].state = "stopped"]
    /\ last' = Rec("end_of_song", 0, i, 0, 0, FALSE, FALSE)
    /\ io' = IO(<<>>, 0)
    /\ UNCHANGED <<initialized, version, is_open, lockStack, exc, engineLive,
                   sample_rate, lockHeld, lockBalance, nslots, held, pc>>

NextCli ==
    \/ \E cmd \in Commands, path \in Paths, lib_version \in BOOLEAN,
          module \in ModuleArgs, requested \in Requested :
            main(cmd, path, lib_version, module, requested)
    \/ cmd_songs
    \/ cmd_info
    \/ cmd_play
    \/ SunVox_enter
    \/ Slot_enter
    \/ Slot_exit
    \/ SunVox_exit
    \/ cmd_info_version
    \/ cmd_load
    \/ cmd_songs_file
    \/ cmd_info_module
    \/ cmd_info_summary
    \/ cmd_play_duration
    \/ cmd_play_volume
    \/ cmd_play_play
    \/ cmd_play_loop
    \/ cmd_play_poll_playing
    \/ cmd_play_poll_autostop
    \/ cmd_play_sleep
    \/ cmd_play_stop
    \/ cmd_play_end_try
    \/ KeyboardInterrupt
    \/ cmd_play_except
    \/ \E i \in SlotIdx : Engine_end_of_song(i)

InitCli == InitWrapper /\ InitEngine /\ pc = CliIdle

SpecCli == InitCli /\ [][NextCli]_vars

\* The command has ended: main() returned or an exception left it.
CliDone == pc.at = "done" /\ pc.cmd # "none"

\* C23: a command whose path argument fails the file test returns exit code
\* 1 without a single engine call (no init, no open, no load): `info` not
\* asked for --version with no file or a file that does not exist, `play`
\* with a file that does not exist, `songs` with a path that does not exist
\* or is not a directory.
C23_MissingPathReturnsBeforeEngine ==
    (/\ CliDone
     /\ \/ pc.cmd = "info" /\ ~pc.lib_version /\ pc.path \in {"none", "missing"}
        \/ pc.cmd = "play" /\ pc.path = "missing"
        \/ pc.cmd = "songs" /\ pc.path \in {"missing", "file"})
    => /\ pc.exit = 1
       /\ pc.calls = 0
       /\ pc.inits = 0
       /\ ~initialized /\ engineLive = 0 /\ nslots = {}

\* C23 witness: `info` of a missing file has returned, in a process whose
\* earlier command did use the engine.
C23_Witness ==
    /\ CliDone
    /\ pc.cmd = "info" /\ ~pc.lib_version /\ pc.path = "missing"
    /\ pc.exit = 1 /\ pc.calls = 0
    /\ last.op = "deinit" /\ last.ncalls = 1

\* C23 as stated: `info <file>` with a missing file returns 1 before any
\* engine call, whatever the other options are.
C23_Original ==
    (CliDone /\ pc.cmd = "info" /\ pc.path = "missing")
    => (pc.exit = 1 /\ pc.calls = 0)

\* C24: when init, open or load raised SunVoxError inside cmd_info or
\* cmd_play, main() has returned a non-zero exit code and the exception did
\* not leave it.
C24_EngineFailureReturnsNonZero ==
    (CliDone /\ pc.cmd \in {"info", "play"} /\ pc.pending = "SunVoxError")
    => (~pc.escaped /\ pc.exit > 0)

\* C25: on every exit path of the nested with blocks (the body ends, returns
\* or raises, Slot.open fails) a native close_slot is issued only while the
\* engine is live, the native deinit is issued only when the engine holds no
\* slot open and no handle is marked open, and when the command has ended the
\* engine was deinitialized once for each init that succeeded and nothing is
\* left open.
C25_SlotClosedBeforeDeinit ==
    /\ (last.op = "close" /\ last.ncalls = 1) => last.pre.engineLive > 0
    /\ (last.op = "deinit" /\ last.ncalls = 1) =>
            /\ io.pre.nslots = {}
            /\ \A h \in Handles : ~last.pre.is_open[h]
    /\ CliDone =>
            /\ pc.deinits = pc.inits
            /\ pc.inits <= 1
            /\ ~initialized /\ engineLive = 0 /\ nslots = {}
            /\ \A h \in Handles : ~is_open[h]

\* C25 witness: the command ended with an exception raised by the body
\* (slot.load), after the slot was opened, closed and the engine deinitialized.
C25_Witness ==
    /\ CliDone /\ pc.pending = "SunVoxError" /\ pc.inits = 1 /\ pc.deinits = 1
    /\ last.op = "deinit" /\ last.ncalls = 1
    /\ pc.calls = 5

\* C28: `info <file> --module <id>` with a module the project does not have
\* prints the error, carries exit code 1 out of both with blocks and prints
\* no module detail; when it has returned the exit code is 1, the slot is
\* closed and the engine deinitialized, and an init() issued by a command of
\* this process always reaches the native layer.
C28_MissingModuleReturnsOneAfterCleanup ==
    /\ (pc.at = "slot_exit" /\ last.op = "Module.exists" /\ ~io.ret) =>
            /\ ~Module_value("Module.exists", last.idx, pc.module)
            /\ pc.ret = 1
            /\ "error" \in pc.printed /\ "detail" \notin pc.printed
    /\ (CliDone /\ pc.cmd = "info" /\ "error" \in pc.printed /\ pc.calls > 0) =>
            /\ pc.exit = 1 /\ ~pc.escaped
            /\ "detail" \notin pc.printed
            /\ pc.inits = 1 /\ pc.deinits = 1
            /\ ~initialized /\ engineLive = 0 /\ nslots = {}
            /\ \A h \in Handles : ~is_open[h]
    /\ last.op = "init" => last.ncalls = 1

\* C28 witness: `info <file> --module 1` has returned 1 with the error
\* printed, after init, open, load, the flags query, close and deinit.
C28_Witness ==
    /\ CliDone /\ pc.cmd = "info" /\ pc.module = 1
    /\ "error" \in pc.printed /\ pc.exit = 1 /\ pc.calls = 6

\* C29: when `play` has ended after entering its try block, slot.stop() was
\* called exactly once, on the normal exit of the wait loop and on
\* KeyboardInterrupt alike.
C29_StopCalledExactlyOnce ==
    (CliDone /\ pc.cmd = "play" /\ "playing" \in pc.printed) => pc.stops = 1

\* ------------------------------------------- init / deinit from two threads
\* Two threads, each with its own SunVox object, call init() and deinit().
\* A thread can be suspended between any two statements of a method, so each
\* statement that reads or writes shared state is a step of its own.
\* pc.th[t] is where thread t is and the native result it holds; pc.overlap
\* records whether a call ever started while another thread was inside one.
Threads == {1, 2}

ThreadIdle == [at |-> "idle", result |-> 0, rate |-> 0]

InitThreads ==
    /\ InitWrapper /\ InitEngine
    /\ pc = [th |-> [t \in Threads |-> ThreadIdle], overlap |-> FALSE]

threadFrame == <<is_open, lockStack, exc, lockHeld, lockBalance, nslots, proj, held, io>>

\* A call starts: does it overlap a call of another thread?
Started(t) == pc.overlap \/ \E u \in Threads \ {t} : pc.th[u].at # "idle"

\* SunVox.init entered without the test of the class flag
Thread_init_test_skipped(t) ==
    /\ pc.th[t].at = "idle"
    /\ pc' = [pc EXCEPT !.th[t].at = "init_call", !.overlap = Started(t)]
    /\ UNCHANGED <<initialized, version, engineLive, sample_rate, last, threadFrame>>

\* SunVox.init, `if SunVox._initialized: raise SunVoxError(...)`
Thread_init_test(t) ==
    /\ pc.th[t].at = "idle"
    /\ IF initialized
       THEN /\ last' = Rec("init", t, -1, 0, 0, FALSE, TRUE)
            /\ pc' = [pc EXCEPT !.overlap = Started(t)]
       ELSE /\ pc' = [pc EXCEPT !.th[t].at = "init_call", !.overlap = Started(t)]
            /\ UNCHANGED last
    /\ UNCHANGED <<initialized, version, engineLive, sample_rate, threadFrame>>

\* SunVox.init, `result = _core.init(...)` and `if result < 0: raise`
Thread_init_call(t) ==
    /\ pc.th[t].at = "init_call"
    /\ \E result \in NativeInitResults, rate \in Rates :
        /\ last' = Rec("init", t, -1, 1, result, FALSE, result < 0)
        /\ IF result < 0
           THEN /\ pc' = [pc EXCEPT !.th[t] = ThreadIdle]
                /\ UNCHANGED <<engineLive, sample_rate>>
           ELSE /\ pc' = [pc EXCEPT !.th[t] = [at |-> "init_set", result |-> result,
                                               rate |-> rate]]
                /\ engineLive' = engineLive + 1
                /\ sample_rate' = rate
    /\ UNCHANGED <<initialized, version, threadFrame>>

\* SunVox.init, `SunVox._initialized = True` and `self._version = result`
Thread_init_set(t) ==
    /\ pc.th[t].at = "init_set"
    /\ initialized' = TRUE
    /\ version' = [version EXCEPT ![t] = [set |-> TRUE, val |-> pc.th[t].result]]
    /\ pc' = [pc EXCEPT !.th[t] = ThreadIdle]
    /\ UNCHANGED <<engineLive, sample_rate, last, threadFrame>>

\* SunVox.deinit, `if SunVox._initialized:`
Thread_deinit_test(t) ==
    /\ pc.th[t].at = "idle"
    /\ IF initialized
       THEN /\ pc' = [pc EXCEPT !.th[t].at = "deinit_call", !.overlap = Started(t)]
            /\ UNCHANGED last
       ELSE /\ last' = Rec("deinit", t, -1, 0, 0, FALSE, FALSE)
            /\ pc' = [pc EXCEPT !.overlap = Started(t)]
    /\ UNCHANGED <<initialized, version, engineLive, sample_rate, threadFrame>>

\* SunVox.deinit, `_core.deinit()`
Thread_deinit_call(t) ==
    /\ pc.th[t].at = "deinit_call"
    /\ last' = Rec("deinit", t, -1, 1, 0, FALSE, FALSE)
    /\ engineLive' = 0
    /\ pc' = [pc EXCEPT !.th[t].at = "deinit_clear"]
    /\ UNCHANGED <<initialized, version, sample_rate, threadFrame>>

\* SunVox.deinit, `SunVox._initialized = False`
Thread_deinit_clear(t) ==
    /\ pc.th[t].at = "deinit_clear"
    /\ initialized' = FALSE
    /\ pc' = [pc EXCEPT !.th[t] = ThreadIdle]
    /\ UNCHANGED <<version, engineLive, sample_rate, last, threadFrame>>

NextThreads ==
    \/ \E t \in Threads : Thread_init_test(t)
    \/ \E t \in Threads : Thread_init_call(t)
    \/ \E t \in Threads : Thread_init_set(t)
    \/ \E t \in Threads : Thread_deinit_test(t)
    \/ \E t \in Threads : Thread_deinit_call(t)
    \/ \E t \in Threads : Thread_deinit_clear(t)

SpecThreads == InitThreads /\ [][NextThreads]_vars

\* C26: init() and deinit() take no lock.  As long as no call of one thread
\* started while another thread was inside a call (serialized callers), at
\* most one native engine is live and a native init is issued only when none
\* is; with overlapping calls nothing in the wrapper keeps a second native
\* init from being issued while the engine is live (the witness).
C26_SingleInstanceWhenSerialized ==
    ~pc.overlap =>
        /\ engineLive <= 1
        /\ (last.op = "init" /\ last.ncalls = 1) => last.pre.engineLive = 0
        /\ (\A t \in Threads : pc.th[t].at = "idle") => initialized = (engineLive = 1)

\* C26 witness: both threads passed the flag test and both issued the native
\* init; the second was issued, and succeeded, while the engine was live.
C26_Witness ==
    /\ pc.overlap
    /\ last.op = "init" /\ last.ncalls = 1 /\ last.pre.engineLive = 1
    /\ ~last.pre.initialized
    /\ engineLive = 2
    /\ \A t \in Threads : pc.th[t].at = "init_set"

\* ------------------------------------------------ Slot.lock from two threads
\* Two threads run `with slot.lock(): body` on Slot objects of their choice;
\* the engine is set up and slots are opened and closed while no thread is
\* inside a body.  pc.th[t] is where thread t is: outside (`out`) or inside
\* the body of the lock of handle h, and whether lock_slot gave it the lock.
LockOut == [at |-> "out", h |-> 0, got |-> FALSE]

InitLockThreads ==
    /\ InitWrapper /\ InitEngine
    /\ pc = [th |-> [t \in Threads |-> LockOut]]

AllOut == \A t \in Threads : pc.th[t].at = "out"

\* _core.lock_slot called by a thread: it fails on a slot index the engine
\* does not hold open; on an open slot it waits for the lock of that index
\* to be free and takes it.
NativeLockSlot(i, result) ==
    IF i \in nslots THEN ~lockHeld[i] /\ result = 0 ELSE result = -1

\* Slot.lock, up to the yield, by thread t: the value lock_slot returns is
\* dropped and the body is entered.
Thread_lock_enter(t, h) ==
    /\ pc.th[t].at = "out"
    /\ \E result \in NativeRc :
        /\ NativeLockSlot(SlotNum(h), result)
        /\ last' = Rec("lock", h, SlotNum(h), 1, result, FALSE, FALSE)
        /\ lockHeld' = IF result >= 0 THEN [lockHeld EXCEPT ![SlotNum(h)] = TRUE]
                       ELSE lockHeld
        /\ pc' = [pc EXCEPT !.th[t] = [at |-> "body", h |-> h, got |-> result >= 0]]
    /\ io' = IO(<<SlotNum(h)>>, last'.rc)
    /\ UNCHANGED <<initialized, version, is_open, lockStack, exc, engineLive,
                   sample_rate, lockBalance, nslots, proj, held>>

\* Slot.lock, the finally clause, by thread t: _core.unlock_slot with the
\* same index; it releases the lock the thread holds.
Thread_lock_exit(t) ==
    /\ pc.th[t].at = "body"
    /\ LET h == pc.th[t].h
           i == SlotNum(h)
       IN  /\ last' = Rec("unlock", h, i, 1, IF pc.th[t].got THEN 0 ELSE -1, FALSE, FALSE)
           /\ lockHeld' = IF pc.th[t].got THEN [lockHeld EXCEPT ![i] = FALSE] ELSE lockHeld
           /\ io' = IO(<<i>>, last'.rc)
    /\ pc' = [pc EXCEPT !.th[t] = LockOut]
    /\ UNCHANGED <<initialized, version, is_open, lockStack, exc, engineLive,
                   sample_rate, lockBalance, nslots, proj, held>>

NextLockThreads ==
    \/ AllOut /\ SunVox_init(1) /\ NativeInit
       /\ UNCHANGED pc
    \/ \E h \in Handles : AllOut /\ Slot_open(h) /\ NativeOpenSlot
       /\ UNCHANGED pc
    \/ \E h \in Handles : AllOut /\ Slot_close(h) /\ NativeCloseSlot
       /\ UNCHANGED pc
    \/ \E t \in Threads, h \in Handles : Thread_lock_enter(t, h)
    \/ \E t \in Threads : Thread_lock_exit(t)

SpecLockThreads == InitLockThreads /\ [][NextLockThreads]_vars

\* C21: no two threads are inside `with lock()` bodies of the same slot
\* index at the same time, whether they use the same Slot object or two
\* objects with that index.
C21_OneThreadPerSlotIndex ==
    \A t \in Threads, u \in Threads :
        (t # u /\ pc.th[t].at = "body" /\ pc.th[u].at = "body")
        => SlotNum(pc.th[t].h) # SlotNum(pc.th[u].h)

\* ------------------------------------- Pattern.get_event against a writer
\* One thread reads a cell of pattern 0 of slot 0 with Pattern.get_event
\* while another thread writes cells with Pattern.set_event.  get_event is
\* five native queries, each a step the writer can run between.  pc is the
\* reader: the cell it reads, the fields it has (`got`), and the values the
\* cell had at some moment since the call began (`seen`).
ReaderIdle == [at |-> "idle", cell |-> <<0, 0>>, got |-> <<>>, seen |-> {}]

InitEventThreads == InitWrapper /\ InitEngine /\ pc = ReaderIdle

\* The cell of pattern 0 of slot 0 as the engine holds it; five times -1
\* when the pattern does not exist.
CellNow(c) == [k \in 1..5 |-> NativeGetPatternEvent(0, 0, c[1], c[2], k - 1)]

\* Pattern.get_event(track, line) is called.
Reader_get_event(c) ==
    /\ pc.at = "idle"
    /\ pc' = [at |-> "reading", cell |-> c, got |-> <<>>, seen |-> {CellNow(c)}]
    /\ UNCHANGED allButPc

\* Pattern.get_event: the next _core.get_pattern_event(slot, pat, track,
\* line, column), columns 0..4 in this order; after the fifth the tuple is
\* returned.
Reader_get_pattern_event ==
    /\ pc.at = "reading"
    /\ LET column == Len(pc.got)
           value == NativeGetPatternEvent(0, 0, pc.cell[1], pc.cell[2], column)
       IN  /\ last' = Rec("get_pattern_event", 1, 0, 1, Sgn(value), FALSE, FALSE)
           /\ io' = Call(<<pc.cell[1], pc.cell[2]>>,
                         <<0, 0, pc.cell[1], pc.cell[2], column>>, value)
           /\ pc' = [pc EXCEPT !.got = Append(@, value),
                               !.at = IF column = 4 THEN "returned" ELSE "reading"]
    /\ UNCHANGED <<initialized, version, is_open, lockStack, exc, engineLive,
                   sample_rate, lockHeld, lockBalance, nslots, proj, held>>

\* The caller has the tuple.
Reader_return ==
    /\ pc.at = "returned"
    /\ pc' = ReaderIdle
    /\ UNCHANGED allButPc

\* The events the writer sets: note, velocity and module together.
WriterEvents == {<<60, 100, 1, -1, -1>>, <<61, 90, 1, -1, -1>>}

\* Pattern.set_event by the other thread: one native call.
Writer_set_event(c, ev) ==
    /\ Pattern_set_event(1)
    /\ ForwardedFor(<<0, c[1], c[2], ev>>,
                    Pattern_set_event_args(last'.idx, 0, c[1], c[2], ev),
                    NativeSetPatternEvent(Pattern_set_event_args(last'.idx, 0, c[1], c[2], ev)))
    /\ pc' = IF pc.at = "reading"
             THEN [pc EXCEPT !.seen = @ \cup {[k \in 1..5 |->
                        IF NativeGetPatternLines(0, 0) > 0
                        THEN proj'[0].pats[0].cells[pc.cell][k] ELSE -1]}]
             ELSE pc

NextEventThreads ==
    \/ pc.at = "idle" /\ SunVox_init(1) /\ NativeInit
       /\ UNCHANGED pc
    \/ pc.at = "idle" /\ Slot_open(1) /\ NativeOpenSlot
       /\ UNCHANGED pc
    \/ /\ pc.at = "idle"
       /\ proj[SlotNum(1)].pats[0].lines = 0
       /\ Slot_new_pattern(1)
       /\ Forwarded(<<last'.idx, TestPatternLines>>,
                    NativeNewPattern(last'.idx, TestPatternLines))
       /\ UNCHANGED pc
    \/ \E c \in Cells : Reader_get_event(c)
    \/ Reader_get_pattern_event
    \/ Reader_return
    \/ \E c \in Cells, ev \in WriterEvents : Writer_set_event(c, ev)

SpecEventThreads == InitEventThreads /\ [][NextEventThreads]_vars

\* C22: the five fields Pattern.get_event returns all come from one state of
\* the cell: the tuple is a value the cell had at some moment of the call,
\* also when another thread ran set_event between the native queries.
C22_GetEventReadsOneState ==
    pc.at = "returned" => pc.got \in pc.seen

\* ------------------------------------------------ Module / Pattern references
\* The caller keeps one Module and one Pattern reference of slot index 0,
\* obtained from either of two Slot objects with that index, while modules
\* and patterns are created and removed.  pc holds the references: the
\* parent Slot (0: no reference yet), the entity index, and `born`, what the
\* entity's properties were when the reference was constructed; pc.read says
\* which reference the latest step read through.
RefHandles == {1, 2}

NoRef == [slot |-> 0, num |-> 0, born |-> <<>>]

InitRefs ==
    /\ InitWrapper /\ InitEngine
    /\ pc = [Module |-> NoRef, Pattern |-> NoRef, read |-> "none"]

\* What the properties of module m of slot index i are now.
ModuleNow(i, m) == [prop \in ModuleGetters |-> Module_value(prop, i, m)]

\* Slot.get_module(mod_num): Module(self, mod_num), no native call
Slot_get_module(h, m) ==
    /\ pc' = [pc EXCEPT !.Module = [slot |-> h, num |-> m, born |-> ModuleNow(SlotNum(h), m)],
                        !.read = "none"]
    /\ UNCHANGED allButPc

\* Slot.get_pattern(pat_num): Pattern(self, pat_num), no native call
Slot_get_pattern(h, p) ==
    /\ pc' = [pc EXCEPT !.Pattern = [slot |-> h, num |-> p,
                                     born |-> Pattern_exists(NativeGetPatternLines(SlotNum(h), p))],
                        !.read = "none"]
    /\ UNCHANGED allButPc

\* A Module property that answers with what it saw at construction
Module_read_cached(ref, prop) == ref.born[prop]

\* A Module property read through a reference: the native query with the
\* parent's slot index and the module index
Module_read(ref, prop) == Module_value(prop, SlotNum(ref.slot), ref.num)

\* Pattern.exists read through a reference
Pattern_read(ref) == Pattern_exists(NativeGetPatternLines(SlotNum(ref.slot), ref.num))

\* The caller reads a property of the Module reference it keeps.
Module_ref_get(prop) ==
    /\ pc.Module.slot # 0
    /\ Module_get(pc.Module.slot, prop)
    /\ Returned(<<pc.Module.num>>, <<last'.idx, pc.Module.num>>,
                IF prop \in {"Module.exists", "Module.flags"}
                THEN Sgn(NativeGetModuleFlags(last'.idx, pc.Module.num)) ELSE 0,
                Module_read(pc.Module, prop))
    /\ pc' = [pc EXCEPT !.read = "Module"]

\* The caller reads Pattern.exists of the Pattern reference it keeps.
Pattern_ref_get ==
    /\ pc.Pattern.slot # 0
    /\ Pattern_get(pc.Pattern.slot, "Pattern.exists")
    /\ Returned(<<pc.Pattern.num>>, <<last'.idx, pc.Pattern.num>>,
                Sgn(NativeGetPatternLines(last'.idx, pc.Pattern.num)),
                Pattern_read(pc.Pattern))
    /\ pc' = [pc EXCEPT !.read = "Pattern"]

NextRefs ==
    \/ SunVox_init(1) /\ NativeInit
       /\ pc' = [pc EXCEPT !.read = "none"]
    \/ Slot_open(1) /\ NativeOpenSlot
       /\ pc' = [pc EXCEPT !.read = "none"]
    \/ Slot_new_module(1)
       /\ Forwarded(<<last'.idx>>, NativeNewModule(last'.idx))
       /\ pc' = [pc EXCEPT !.read = "none"]
    \/ Slot_new_pattern(1)
       /\ Forwarded(<<last'.idx, TestPatternLines>>,
                    NativeNewPattern(last'.idx, TestPatternLines))
       /\ pc' = [pc EXCEPT !.read = "none"]
    \/ \E m \in ModIdx : Module_remove(1)
            /\ ForwardedFor(<<m>>, Module_remove_args(last'.idx, m),
                            NativeRemoveModule(Module_remove_args(last'.idx, m)))
       /\ pc' = [pc EXCEPT !.read = "none"]
    \/ \E p \in PatIdx : Pattern_remove(1)
            /\ ForwardedFor(<<p>>, Pattern_remove_args(last'.idx, p),
                            NativeRemovePattern(Pattern_remove_args(last'.idx, p)))
       /\ pc' = [pc EXCEPT !.read = "none"]
    \/ \E h \in RefHandles, m \in ModIdx : Slot_get_module(h, m)
    \/ \E h \in RefHandles, p \in PatIdx : Slot_get_pattern(h, p)
    \/ \E prop \in ModuleGetters : Module_ref_get(prop)
    \/ Pattern_ref_get

SpecRefs == InitRefs /\ [][NextRefs]_vars

C11_DeinitNoOpWhenNotInitialized ==
    last.op = "deinit" =>
        /\ ~last.raised
        /\ ~initialized
        /\ last.ncalls = (IF last.pre.initialized THEN 1 ELSE 0)
        /\ ~last.pre.initialized =>
                /\ engineLive = last.pre.engineLive
                /\ version = last.pre.version
                /\ is_open = last.pre.is_open
                /\ sample_rate = last.pre.sample_rate

\* C11 witness: a deinit() with nothing to do, after an earlier init and
\* deinit of the same instance.
C11_Witness ==
    /\ last.op = "deinit" /\ last.ncalls = 0 /\ ~last.pre.initialized
    /\ version[last.who].set

\* C12: an init() that reaches the native init returns its result and
\* records it as the instance's version exactly when the result is >= 0; on
\* a negative result it raises, the flag stays False and every version keeps
\* its value; an init() issued with the flag clear always reaches the native
\* init, so a failed init can be tried again.
C12_VersionRecordedOnSuccessOnly ==
    last.op = "init" =>
        /\ ~last.pre.initialized => last.ncalls = 1
        /\ (last.ncalls = 1 /\ last.rc >= 0) =>
                /\ ~last.raised
                /\ initialized
                /\ version = [last.pre.version EXCEPT
                                ![last.who] = [set |-> TRUE, val |-> last.rc]]
        /\ (last.ncalls = 1 /\ last.rc < 0) =>
                /\ last.raised
                /\ ~initialized
                /\ version = last.pre.version
        /\ last.ncalls = 0 => version = last.pre.version

\* C12 witness: the native init failed on a fresh instance, whose version is
\* still None, while the other instance keeps the version of its own
\* earlier, successful init.
C12_Witness ==
    /\ last.op = "init" /\ last.ncalls = 1 /\ last.rc < 0 /\ last.raised
    /\ ~version[last.who].set
    /\ \E s \in Instances : s # last.who /\ version[s].set /\ version[s].val = 1

\* C20: a slot index is unique while open: no two distinct Slot handles with
\* the same slot_num report is_open == True at the same time.
C20_SlotIndexUniqueWhileOpen ==
    \A h1, h2 \in Handles :
        (h1 # h2 /\ SlotNum(h1) = SlotNum(h2)) => ~(is_open[h1] /\ is_open[h2])

====
